---- MODULE Spec2Model ----
(***************************************************************************)
(* State-machine model of the merged curve renderer (class Curves): one    *)
(* pre-allocated position / color / lineDistance buffer shared by all      *)
(* curve slots, the per-slot curveData records, the draw range and the     *)
(* three dirty flags.  Buffers are flat arrays indexed exactly as in the   *)
(* source (vertexIndex, bufferIndex), so that every write goes through the *)
(* same offset arithmetic as the code.                                     *)
(*                                                                         *)
(* Numbers: coordinates are integers; control points are taken on a grid   *)
(* of step SegmentsPerCurve so that every sampled point is an integer.     *)
(* Color channels, saturation and lightness are in units of 1/ColorScale,  *)
(* hue and longitude in degrees (units of 1/360 of the hue circle).        *)
(***************************************************************************)
EXTENDS Integers, Sequences, FiniteSets, TLC

\* ---------------------------------------------------------------- bounds
MaxCurves == 2
SegmentsPerCurve == 2

\* ------------------------------------------------------ program constants
VerticesPerSegment == 2
ColorScale == 1000
LightnessStart == 350
LightnessEnd == 750

VerticesPerCurve == SegmentsPerCurve * VerticesPerSegment
TotalVertices == MaxCurves * VerticesPerCurve

VARIABLES
    positions,              \* Float32Array(totalVertices * 3)
    colors,                 \* Float32Array(totalVertices * 3)
    lineDistances,          \* Float32Array(totalVertices)
    curveData,              \* array of {controlPoints, color, visible, metadata}
    currentCurveCount,
    drawRange,              \* geometry.drawRange: [start, count]
    needsPositionUpdate,
    needsColorUpdate,
    needsLineDistanceUpdate,
    dashSize,
    gapSize,
    material,               \* the material object held by this.material
    mesh,                   \* TRUE while this.mesh is not null
    highestSet,             \* history: highest slot a setCurve succeeded on, -1 if none
    passedPoints,           \* history: per slot, the control points as they were when
                            \* the last successful setCurve on the slot was called
    countSetDirectly,       \* history: setVisibleCurveCount has been called
    lastOp,                 \* history: the call that was made last and how it ended
    flaggedSinceFlush,      \* history: the attributes whose dirty flag a call has
                            \* set since the last applyUpdates()
    app                     \* the application around the renderer (main.ts)

vars == <<positions, colors, lineDistances, curveData, currentCurveCount,
          drawRange, needsPositionUpdate, needsColorUpdate,
          needsLineDistanceUpdate, dashSize, gapSize, material, mesh,
          highestSet, passedPoints, countSetDirectly, lastOp, flaggedSinceFlush, app>>

\* the renderer's own state, without the history variables
rendererState == <<positions, colors, lineDistances, curveData, currentCurveCount,
                   drawRange, needsPositionUpdate, needsColorUpdate,
                   needsLineDistanceUpdate, dashSize, gapSize, material, mesh>>

buffers == <<positions, colors, lineDistances>>
dirtyFlags == <<needsPositionUpdate, needsColorUpdate, needsLineDistanceUpdate>>

\* ------------------------------------------------------------ arithmetic
Min(a, b) == IF a < b THEN a ELSE b
Max(a, b) == IF a > b THEN a ELSE b
Abs(a) == IF a < 0 THEN -a ELSE a
Clamp(x, lo, hi) == Max(lo, Min(hi, x))

\* Math.sqrt on the integer grid (exact on perfect squares)
Sqrt(n) == CHOOSE r \in 0..n : r * r <= n /\ (r + 1) * (r + 1) > n

\* JavaScript %: the result has the sign of the dividend
JsRem(a, b) == IF a >= 0 THEN a % b ELSE -((-a) % b)

\* a typed-array store: an index outside the array is ignored
Store(buf, idx, val) == IF idx \in DOMAIN buf THEN [buf EXCEPT ![idx] = val] ELSE buf

\* ------------------------------------------------------------ input sets
Unit == SegmentsPerCurve

Vec(x, y, z) == <<x, y, z>>

PointsA == << Vec(0, 0, 0), Vec(2 * Unit, 0, 0) >>
PointsB == << Vec(Unit, Unit, Unit), Vec(2 * Unit, Unit, Unit), Vec(3 * Unit, Unit, Unit) >>
PointsC == << Vec(0, 3 * Unit, Unit), Vec(4 * Unit, 0, Unit) >>

\* a controlPoints argument: null/undefined, or an array of points
NullPoints == [isNull |-> TRUE, pts |-> << >>]
Pts(seq) == [isNull |-> FALSE, pts |-> seq]

ValidPointInputs == {Pts(PointsA), Pts(PointsB)}
InvalidPointInputs == {NullPoints, Pts(<< >>), Pts(<< Vec(Unit, 0, 0) >>)}

\* a color argument: a number 0xRRGGBB (kind "number") or a gradient descriptor
SolidColor(r, g, b) == [kind |-> "number", rgb |-> <<r, g, b>>, departureLat |-> 0, departureLng |-> 0]
GradientColor(lat, lng) == [kind |-> "gradient", rgb |-> <<0, 0, 0>>, departureLat |-> lat, departureLng |-> lng]

White == SolidColor(ColorScale, ColorScale, ColorScale)
Red == SolidColor(ColorScale, 0, 0)

\* a metadata argument: undefined, null, or an object with a departure
NoMetadata == [kind |-> "null", lat |-> 0, lng |-> 0]
UndefinedMetadata == [kind |-> "undefined", lat |-> 0, lng |-> 0]
DepartureMetadata(lat, lng) == [kind |-> "departure", lat |-> lat, lng |-> lng]
SlotInputs == -1 .. MaxCurves
Slots == 0 .. (MaxCurves - 1)
CountInputs == -1 .. (MaxCurves + 1)
DashInputs == {-1, 0, 1}
GapInputs == {0}
CtorDashSizes == {0, 1}
CtorGapSizes == {0}
\* the constructor takes options.dashSize as it is, a negative number included
AnyCtorDashSizes == {-1, 0, 1}
AnyDashInputs == {-1, 0, 1, 2}
AnyGapInputs == {-1, 0, 1}

\* ------------------------------------------------- curve sampling (three.js)
\* CatmullRomCurve3.getPoint(i / divisions): the curve passes through the
\* control points at the knots; the control point lists of the model are
\* chords or equally spaced collinear points, on which the spline is linear.
GetPoint(controlPoints, i, divisions) ==
    LET l == Len(controlPoints)
        p == (l - 1) * i
        atEnd == (p % divisions = 0) /\ (p \div divisions = l - 1)
        intPoint == IF atEnd THEN l - 2 ELSE p \div divisions
        weight == IF atEnd THEN divisions ELSE p % divisions
        p1 == controlPoints[intPoint + 1]
        p2 == controlPoints[intPoint + 2]
    IN  [c \in 1..3 |-> p1[c] + ((p2[c] - p1[c]) * weight) \div divisions]

\* curve.getPoints(divisions): divisions + 1 points, index 0..divisions
GetPoints(controlPoints, divisions) ==
    [i \in 0..divisions |-> GetPoint(controlPoints, i, divisions)]

DistanceTo(a, b) ==
    Sqrt((a[1] - b[1]) * (a[1] - b[1]) + (a[2] - b[2]) * (a[2] - b[2])
         + (a[3] - b[3]) * (a[3] - b[3]))

\* ------------------------------------------------------------ color math
\* THREE.Color.setHSL helper hue2rgb, t in degrees
Hue2Rgb(p, q, t0) ==
    LET t1 == IF t0 < 0 THEN t0 + 360 ELSE t0
        t == IF t1 > 360 THEN t1 - 360 ELSE t1
    IN  IF t < 60 THEN p + ((q - p) * t) \div 60
        ELSE IF t < 180 THEN q
        ELSE IF t < 240 THEN p + ((q - p) * (240 - t)) \div 60
        ELSE p

\* THREE.Color.setHSL(h, s, l)
SetHSL(hue, saturation, lightness) ==
    LET h == hue % 360
        s == Clamp(saturation, 0, ColorScale)
        l == Clamp(lightness, 0, ColorScale)
        p == IF l <= ColorScale \div 2
             THEN (l * (ColorScale + s)) \div ColorScale
             ELSE l + s - (l * s) \div ColorScale
        q == 2 * l - p
    IN  IF s = 0 THEN <<l, l, l>>
        ELSE <<Hue2Rgb(q, p, h + 120), Hue2Rgb(q, p, h), Hue2Rgb(q, p, h - 120)>>

NoGradient == [present |-> FALSE, hue |-> 0, saturation |-> 0,
               lightnessStart |-> 0, lightnessEnd |-> 0]

ComputeGradientParams(color, metadata) ==
    LET fromColor == color.kind = "gradient"
        fromMeta == metadata.kind = "departure"
        lat == IF fromColor THEN color.departureLat ELSE metadata.lat
        lng == IF fromColor THEN color.departureLng ELSE metadata.lng
        latFactor90 == Min(Abs(lat), 90)
    IN  IF ~fromColor /\ ~fromMeta THEN NoGradient
        ELSE [present |-> TRUE,
              hue |-> JsRem(lng + 180, 360),
              saturation |-> Clamp((6 * ColorScale) \div 10
                                   + (3 * ColorScale * (90 - latFactor90)) \div 900,
                                   0, ColorScale),
              lightnessStart |-> LightnessStart,
              lightnessEnd |-> LightnessEnd]

\* mutation: the color passed ignored
ResolveSolidColorDefault(color) == <<267, 533, 1000>>

\* a number resolves to its RGB, anything unknown to 0x4488ff
ResolveSolidColor(color) ==
    IF color.kind = "number" THEN color.rgb
    ELSE <<267, 533, 1000>>

\* mutation: the progress ignored
GetColorForProgressStart(params, num, den) ==
    SetHSL(params.hue, params.saturation, params.lightnessStart)

\* progress is num / den
GetColorForProgress(params, num, den) ==
    LET n == Clamp(num, 0, den)
        lightness == Clamp(params.lightnessStart
                           + ((params.lightnessEnd - params.lightnessStart) * n) \div den,
                           0, ColorScale)
    IN  SetHSL(params.hue, params.saturation, lightness)

\* ------------------------------------------------------------ materials
\* a material's gapSize is held in units of 1e-4, the least gap of a dashed
\* material: Math.max(this.gapSize, 1e-4)
GapScale == 10000
MinMaterialGap == 1

\* mutation: the gap size passed on as it is
CreateMaterialRawGap(dash, gap) ==
    IF dash > 0
    THEN [type |-> "LineDashedMaterial", dashSize |-> dash, gapSize |-> gap * GapScale]
    ELSE [type |-> "LineBasicMaterial", dashSize |-> 0, gapSize |-> 0]

\* createMaterial(): dashed when dashSize > 0, basic otherwise
CreateMaterial(dash, gap) ==
    IF dash > 0
    THEN [type |-> "LineDashedMaterial", dashSize |-> dash,
          gapSize |-> Max(gap * GapScale, MinMaterialGap)]
    ELSE [type |-> "LineBasicMaterial", dashSize |-> 0, gapSize |-> 0]

\* ------------------------------------------------------------ application
\* app: pc (where the running event handler or animation frame stands, "idle"
\* between them), ret (where applyDashPattern returns to), i and n (the loop
\* index and end of the running handler), flights (flights.length), numFlights,
\* dashSize and gapSize (params), events and updates (the GUI events handled
\* and the applyUpdates() calls made since the last renderer.render), rendered
\* (a frame has been rendered), configs (preGeneratedConfigs.length),
\* flightList (the flights array: each flight with the slots it was created
\* with), and for the running updateFlightCount: target (its argument), before
\* (the flights array as the call found it), toRemove (flightsToRemove) and
\* calls (the calls it has made on its collaborators, in order); and, kept by
\* the observer of SpecUpload: unsent (the attributes whose buffer has been
\* written since the attribute was last marked for upload) and sent (those of
\* them the last applyUpdates() marked).
\* The marker renderer and its atlas: paneStyle (params.paneStyle), paneTexture
\* (the texture of the current marker renderer: "unset" as constructed, "null",
\* "atlas"), replacedSets (history: setTexture calls that reached a replaced
\* renderer), svgTexture and svgAtlasInfo (whether set), svgTexturePromise (0 for
\* null, else the build whose promise it holds), builds (per build its stage:
\* "free", "fetch", "image", "texture", "fulfilled"), buildOutcome (history: how
\* the build started last stands), waiting (the then-callbacks attached to
\* pending promises), jobs (the promise reaction jobs queued), lastLoad (history:
\* the last loadSvgTexture call), lastJob (history: the last then-callback run).
\* Start-up: earthTextureLoaded, minTimeElapsed (the window flags),
\* initialCameraPositioned, positioned (history: the times the camera was
\* positioned and the loading screen removed), loadingScreen (shown),
\* lastEvent (history: the start-up event delivered last).
\* The plane settings: planeParams (params.planeSize, planeColor,
\* elevationOffset), planeFlights (per live flight the values its setPaneSize,
\* setPaneColor and setPaneElevation received last), planeConfigs (per
\* pre-generated config its paneSize, paneColor, elevationOffset), planeCalls
\* (history: the calls the last setter made on flights and on its sync
\* callback, in order), lastPlane (history: the last setter and its argument)
NoPlaneInput == [kind |-> "none", number |-> 0, digits |-> << >>]
MaxBuilds == 2
MaxWaiting == 2
BuildIds == 1 .. MaxBuilds
NoLoad == [prior |-> "none", result |-> "none", promise |-> 0]
NoJob == [stale |-> FALSE, origin |-> "none", style |-> "none", applied |-> FALSE]
AppStart == [pc |-> "idle", ret |-> "idle", i |-> 0, n |-> 0, flights |-> 0,
             numFlights |-> 0, dashSize |-> 0, gapSize |-> 0,
             events |-> 0, updates |-> 0, rendered |-> FALSE,
             configs |-> 0, flightList |-> << >>, target |-> 0,
             before |-> << >>, toRemove |-> << >>, calls |-> << >>,
             unsent |-> {}, sent |-> {},
             paneStyle |-> "SVG", paneTexture |-> "unset", replacedSets |-> 0,
             svgTexture |-> FALSE, svgAtlasInfo |-> FALSE, svgTexturePromise |-> 0,
             builds |-> [id \in BuildIds |-> "free"], buildOutcome |-> "none",
             waiting |-> << >>, jobs |-> << >>, lastLoad |-> NoLoad, lastJob |-> NoJob,
             earthTextureLoaded |-> FALSE, minTimeElapsed |-> FALSE,
             initialCameraPositioned |-> FALSE, positioned |-> 0,
             loadingScreen |-> TRUE, lastEvent |-> "none",
             planeParams |-> [planeSize |-> 0, planeColor |-> 0, elevationOffset |-> 0],
             planeFlights |-> << >>, planeConfigs |-> << >>, planeCalls |-> << >>,
             lastPlane |-> [op |-> "none", input |-> NoPlaneInput]]

\* ------------------------------------------------------------------ Init
InitialCurveData ==
    [i \in Slots |-> [controlPoints |-> << >>, color |-> White,
                      visible |-> FALSE, metadata |-> NoMetadata]]

\* lastOp: op and arg (the slot, count or dash size passed), gap (the gap size
\* passed), points (the number of control points passed, -1 for null), prior
\* (what the slot held before the call), outcome, marked (the objects whose
\* needsUpdate the call set, in the order it set them), flagged (the dirty
\* flags the call set), cleared (the dirty flags the call found set and cleared),
\* log (the console messages the call wrote), t (the curve parameter passed to
\* a query), result (the vector a query returned)
NoCall == [op |-> "constructor", arg |-> 0, gap |-> 0, points |-> 0, prior |-> "none",
           outcome |-> "returned", marked |-> << >>, flagged |-> {}, cleared |-> {},
           log |-> << >>, t |-> 0, result |-> <<0, 0, 0>>]

\* the fields of new Curves(scene, {maxCurves, segmentsPerCurve, dashSize, gapSize})
NewCurves(dash, gap) ==
    [positions |-> [b \in 0 .. (TotalVertices * 3 - 1) |-> 0],
     colors |-> [b \in 0 .. (TotalVertices * 3 - 1) |-> 0],
     lineDistances |-> [v \in 0 .. (TotalVertices - 1) |-> 0],
     curveData |-> InitialCurveData,
     currentCurveCount |-> 0,
     drawRange |-> [start |-> 0, count |-> 0],
     dashSize |-> dash,
     gapSize |-> gap,
     material |-> CreateMaterial(dash, gap)]

\* the state after construction with a dash and a gap size of the given sets
Constructed(ctorDashSizes, ctorGapSizes) ==
    /\ dashSize \in ctorDashSizes
    /\ gapSize \in ctorGapSizes
    /\ positions = NewCurves(dashSize, gapSize).positions
    /\ colors = NewCurves(dashSize, gapSize).colors
    /\ lineDistances = NewCurves(dashSize, gapSize).lineDistances
    /\ curveData = NewCurves(dashSize, gapSize).curveData
    /\ currentCurveCount = NewCurves(dashSize, gapSize).currentCurveCount
    /\ drawRange = NewCurves(dashSize, gapSize).drawRange
    /\ needsPositionUpdate = FALSE
    /\ needsColorUpdate = FALSE
    /\ needsLineDistanceUpdate = FALSE
    /\ material = NewCurves(dashSize, gapSize).material
    /\ mesh = TRUE
    /\ highestSet = -1
    /\ passedPoints = [i \in Slots |-> << >>]
    /\ countSetDirectly = FALSE
    /\ lastOp = NoCall
    /\ flaggedSinceFlush = {}

InitWith(ctorDashSizes, ctorGapSizes) ==
    /\ Constructed(ctorDashSizes, ctorGapSizes)
    /\ app = AppStart

Init == InitWith(CtorDashSizes, CtorGapSizes)

\* ---------------------------------------------------------------- helpers
\* mutation: the upper bound tested with > instead of >=
SlotInRangeInclusive(curveIndex) == ~(curveIndex < 0 \/ curveIndex > MaxCurves)

\* the bounds check every slot-taking method starts with
SlotInRange(curveIndex) == ~(curveIndex < 0 \/ curveIndex >= MaxCurves)

\* mutation: a single control point accepted
TooFewPointsOffByOne(controlPoints) == controlPoints.isNull \/ Len(controlPoints.pts) < 1

\* !controlPoints || controlPoints.length < 2
TooFewPoints(controlPoints) == controlPoints.isNull \/ Len(controlPoints.pts) < 2

\* this.curveData[curveIndex] is undefined once remove() emptied the array:
\* reading or writing a property of it throws a TypeError
HasCurveData(curveIndex) == curveIndex \in DOMAIN curveData

\* mutation: the visibility check dropped
NotVisibleIgnored(data, curveIndex) == FALSE

\* !curveData.visible
NotVisible(data, curveIndex) == ~data[curveIndex].visible

\* mutation: the slot stride counted in segments, not vertices
VertexOffsetPerSegment(curveIndex) == curveIndex * SegmentsPerCurve

\* curveIndex * this.verticesPerCurve
VertexOffset(curveIndex) == curveIndex * VerticesPerCurve

\* mutation: one vertex per segment
SegmentVertexIndexPacked(vertexOffset, segmentIndex) == vertexOffset + segmentIndex

\* vertexOffset + segmentIndex * this.verticesPerSegment
SegmentVertexIndex(vertexOffset, segmentIndex) ==
    vertexOffset + segmentIndex * VerticesPerSegment

\* mutation: the three floats per vertex forgotten
FloatsPerCurveShort == VerticesPerCurve

\* hideCurve: const totalVertices = this.verticesPerCurve * 3
FloatsPerCurve == VerticesPerCurve * 3

\* mutation: the draw range counted in segments, not vertices
DrawRangeForSegments(count) == [start |-> 0, count |-> count * SegmentsPerCurve]

\* updateDrawRange()
DrawRangeFor(count) == [start |-> 0, count |-> count * VerticesPerCurve]

\* mutation: the count added to the current count
VisibleCountForAdded(count) == Min(currentCurveCount + count, MaxCurves)

\* setVisibleCurveCount: Math.min(count, this.maxCurves)
VisibleCountFor(count) == Min(count, MaxCurves)

\* mutation: > instead of >=
CountAfterSetStrict(curveIndex, count) == IF curveIndex > count THEN curveIndex + 1 ELSE count

\* mutation: the count always follows the slot last set
CountAfterSetAlways(curveIndex, count) == curveIndex + 1

\* setCurve: if (curveIndex >= this.currentCurveCount) this.currentCurveCount = curveIndex + 1
CountAfterSet(curveIndex, count) == IF curveIndex >= count THEN curveIndex + 1 ELSE count

\* what a slot holds, for lastOp.prior
PriorOf(curveIndex) ==
    IF curveIndex \notin DOMAIN curveData THEN "none"
    ELSE IF curveData[curveIndex].visible THEN "visible"
    ELSE IF Len(curveData[curveIndex].controlPoints) > 0 THEN "hidden"
    ELSE "unset"

Call(op, arg, outcome) ==
    [op |-> op, arg |-> arg, gap |-> 0, points |-> 0, prior |-> PriorOf(arg),
     outcome |-> outcome, marked |-> << >>, flagged |-> {}, cleared |-> {},
     log |-> << >>, t |-> 0, result |-> <<0, 0, 0>>]

\* a call that set the dirty flags in flagged
Flagging(call, flagged) == [call EXCEPT !.flagged = flagged]

\* the console.warn of setCurve's two early returns
SetCurveWarning(outcome) ==
    IF outcome = "out of bounds" THEN <<"Curve index out of bounds">>
    ELSE IF outcome = "too few points" THEN <<"Need at least 2 control points for a curve">>
    ELSE << >>

SetCurveCall(curveIndex, controlPoints, outcome) ==
    [Call("setCurve", curveIndex, outcome) EXCEPT
        !.points = IF controlPoints.isNull THEN -1 ELSE Len(controlPoints.pts),
        !.log = SetCurveWarning(outcome)]

\* ------------------------------------------------------ _applyColorToCurve
\* mutation: only the start vertex of the segment colored
ColorSegmentStartOnly(buf, bufferIndex, startColor, endColor) ==
    LET b0 == Store(buf, bufferIndex, startColor[1])
        b1 == Store(b0, bufferIndex + 1, startColor[2])
    IN  Store(b1, bufferIndex + 2, startColor[3])

\* the six color stores of one segment
ColorSegment(buf, bufferIndex, startColor, endColor) ==
    LET b0 == Store(buf, bufferIndex, startColor[1])
        b1 == Store(b0, bufferIndex + 1, startColor[2])
        b2 == Store(b1, bufferIndex + 2, startColor[3])
        b3 == Store(b2, bufferIndex + 3, endColor[1])
        b4 == Store(b3, bufferIndex + 4, endColor[2])
    IN  Store(b4, bufferIndex + 5, endColor[3])

RECURSIVE ColorLoop(_, _, _, _, _)
ColorLoop(buf, gradientParams, solidColor, vertexOffset, segmentIndex) ==
    IF segmentIndex >= SegmentsPerCurve THEN buf
    ELSE ColorLoop(
            ColorSegment(buf, SegmentVertexIndex(vertexOffset, segmentIndex) * 3,
                IF gradientParams.present
                THEN GetColorForProgress(gradientParams, segmentIndex, SegmentsPerCurve)
                ELSE solidColor,
                IF gradientParams.present
                THEN GetColorForProgress(gradientParams, segmentIndex + 1, SegmentsPerCurve)
                ELSE solidColor),
            gradientParams, solidColor, vertexOffset, segmentIndex + 1)

\* _applyColorToCurve(curveIndex) with this.curveData = data: the colors
\* buffer and the needsColorUpdate flag it leaves
ApplyColorToCurve(data, curveIndex) ==
    IF ~SlotInRange(curveIndex) \/ NotVisible(data, curveIndex)
    THEN [colors |-> colors, needsColorUpdate |-> needsColorUpdate, flagged |-> {}]
    ELSE [colors |-> ColorLoop(colors,
                               ComputeGradientParams(data[curveIndex].color,
                                                     data[curveIndex].metadata),
                               ResolveSolidColor(data[curveIndex].color),
                               VertexOffset(curveIndex), 0),
          needsColorUpdate |-> TRUE, flagged |-> {"color"}]

\* ---------------------------------------------------------------- setCurve
\* mutation: the running distance not carried into the segment
SetCurveSegmentRestarting(buf, vertexIndex, startPoint, endPoint, segmentLength) ==
    LET bufferIndex == vertexIndex * 3
        p0 == Store(buf.positions, bufferIndex, startPoint[1])
        p1 == Store(p0, bufferIndex + 1, startPoint[2])
        p2 == Store(p1, bufferIndex + 2, startPoint[3])
        p3 == Store(p2, bufferIndex + 3, endPoint[1])
        p4 == Store(p3, bufferIndex + 4, endPoint[2])
        d0 == Store(buf.lineDistances, vertexIndex, 0)
    IN  [positions |-> Store(p4, bufferIndex + 5, endPoint[3]),
         lineDistances |-> Store(d0, vertexIndex + 1, segmentLength),
         distance |-> buf.distance + segmentLength]

\* one pass of the segment loop: two vertices and their line distances;
\* buf carries positions, lineDistances and the running distance
SetCurveSegment(buf, vertexIndex, startPoint, endPoint, segmentLength) ==
    LET bufferIndex == vertexIndex * 3
        p0 == Store(buf.positions, bufferIndex, startPoint[1])
        p1 == Store(p0, bufferIndex + 1, startPoint[2])
        p2 == Store(p1, bufferIndex + 2, startPoint[3])
        p3 == Store(p2, bufferIndex + 3, endPoint[1])
        p4 == Store(p3, bufferIndex + 4, endPoint[2])
        d0 == Store(buf.lineDistances, vertexIndex, buf.distance)
    IN  [positions |-> Store(p4, bufferIndex + 5, endPoint[3]),
         lineDistances |-> Store(d0, vertexIndex + 1, buf.distance + segmentLength),
         distance |-> buf.distance + segmentLength]

RECURSIVE SetCurveLoop(_, _, _, _)
SetCurveLoop(buf, points, vertexOffset, segmentIndex) ==
    IF segmentIndex >= SegmentsPerCurve THEN buf
    ELSE SetCurveLoop(
            SetCurveSegment(buf, SegmentVertexIndex(vertexOffset, segmentIndex),
                            points[segmentIndex], points[segmentIndex + 1],
                            DistanceTo(points[segmentIndex], points[segmentIndex + 1])),
            points, vertexOffset, segmentIndex + 1)

\* mutation: the slot's offset ignored
WriteCurveAtOrigin(pos, dist, controlPoints, curveIndex) ==
    SetCurveLoop([positions |-> pos, lineDistances |-> dist, distance |-> 0],
                 GetPoints(controlPoints, SegmentsPerCurve), 0, 0)

\* the geometry part of setCurve (lines 119-145) on the given buffers
WriteCurve(pos, dist, controlPoints, curveIndex) ==
    SetCurveLoop([positions |-> pos, lineDistances |-> dist, distance |-> 0],
                 GetPoints(controlPoints, SegmentsPerCurve), VertexOffset(curveIndex), 0)

\* the curveData entry setCurve stores (metadata ?? null)
StoredCurve(controlPoints, color, metadata) ==
    [controlPoints |-> controlPoints.pts, color |-> color, visible |-> TRUE,
     metadata |-> IF metadata.kind = "undefined" THEN NoMetadata ELSE metadata]

\* the assignments of a setCurve call that passed its checks
SetCurveWrites(curveIndex, call, data, written, colored) ==
    /\ curveData' = data
    /\ positions' = written.positions
    /\ lineDistances' = written.lineDistances
    /\ colors' = colored.colors
    /\ needsColorUpdate' = colored.needsColorUpdate
    /\ needsPositionUpdate' = TRUE
    /\ needsLineDistanceUpdate' = TRUE
    /\ currentCurveCount' = CountAfterSet(curveIndex, currentCurveCount)
    /\ IF curveIndex >= currentCurveCount
       THEN drawRange' = DrawRangeFor(CountAfterSet(curveIndex, currentCurveCount))
       ELSE UNCHANGED drawRange
    /\ highestSet' = Max(highestSet, curveIndex)
    /\ passedPoints' = [passedPoints EXCEPT ![curveIndex] = data[curveIndex].controlPoints]
    /\ lastOp' = Flagging(call, {"position", "lineDistance"} \cup colored.flagged)
    /\ flaggedSinceFlush' = flaggedSinceFlush \cup {"position", "lineDistance"}
                                              \cup colored.flagged
    /\ UNCHANGED <<dashSize, gapSize, material, mesh, countSetDirectly>>

SetCurve(curveIndex, controlPoints, color, metadata) ==
    IF ~SlotInRange(curveIndex)
    THEN /\ lastOp' = SetCurveCall(curveIndex, controlPoints, "out of bounds")
         /\ UNCHANGED <<rendererState, highestSet, passedPoints, countSetDirectly, flaggedSinceFlush>>
    ELSE IF TooFewPoints(controlPoints)
    THEN /\ lastOp' = SetCurveCall(curveIndex, controlPoints, "too few points")
         /\ UNCHANGED <<rendererState, highestSet, passedPoints, countSetDirectly, flaggedSinceFlush>>
    ELSE IF ~HasCurveData(curveIndex)
    THEN \* curveData.controlPoints = ... on undefined
         /\ lastOp' = SetCurveCall(curveIndex, controlPoints, "threw")
         /\ UNCHANGED <<rendererState, highestSet, passedPoints, countSetDirectly, flaggedSinceFlush>>
    ELSE IF controlPoints.isNull \/ Len(controlPoints.pts) < 2
    THEN \* the slot's data is stored, then the curve sampling throws
         /\ curveData' = [curveData EXCEPT ![curveIndex] =
                              StoredCurve(controlPoints, color, metadata)]
         /\ lastOp' = SetCurveCall(curveIndex, controlPoints, "threw")
         /\ UNCHANGED <<positions, colors, lineDistances, currentCurveCount, drawRange,
                        needsPositionUpdate, needsColorUpdate, needsLineDistanceUpdate,
                        dashSize, gapSize, material, mesh, highestSet, passedPoints, countSetDirectly,
                        flaggedSinceFlush>>
    ELSE SetCurveWrites(
            curveIndex,
            SetCurveCall(curveIndex, controlPoints, "returned"),
            [curveData EXCEPT ![curveIndex] = StoredCurve(controlPoints, color, metadata)],
            WriteCurve(positions, lineDistances, controlPoints.pts, curveIndex),
            ApplyColorToCurve(
                [curveData EXCEPT ![curveIndex] = StoredCurve(controlPoints, color, metadata)],
                curveIndex))

\* ----------------------------------------------------------- setCurveColor
\* the assignments of a setCurveColor call on a visible slot
SetCurveColorWrites(curveIndex, data, colored) ==
    /\ curveData' = data
    /\ colors' = colored.colors
    /\ needsColorUpdate' = colored.needsColorUpdate
    /\ lastOp' = Flagging(Call("setCurveColor", curveIndex, "returned"), colored.flagged)
    /\ flaggedSinceFlush' = flaggedSinceFlush \cup colored.flagged
    /\ UNCHANGED <<positions, lineDistances, currentCurveCount, drawRange,
                   needsPositionUpdate, needsLineDistanceUpdate, dashSize,
                   gapSize, material, mesh, highestSet, passedPoints, countSetDirectly>>

\* curveData.color = color; if (metadata !== undefined) curveData.metadata = metadata ?? null
RecoloredData(curveIndex, color, metadata) ==
    [curveData EXCEPT ![curveIndex].color = color,
                      ![curveIndex].metadata =
                          IF metadata.kind = "undefined" THEN @ ELSE metadata]

SetCurveColor(curveIndex, color, metadata) ==
    IF ~SlotInRange(curveIndex)
    THEN /\ lastOp' = Call("setCurveColor", curveIndex, "out of bounds")
         /\ UNCHANGED <<rendererState, highestSet, passedPoints, countSetDirectly, flaggedSinceFlush>>
    ELSE IF ~HasCurveData(curveIndex)
    THEN /\ lastOp' = Call("setCurveColor", curveIndex, "threw")
         /\ UNCHANGED <<rendererState, highestSet, passedPoints, countSetDirectly, flaggedSinceFlush>>
    ELSE IF NotVisible(curveData, curveIndex)
    THEN /\ lastOp' = Call("setCurveColor", curveIndex, "not visible")
         /\ UNCHANGED <<rendererState, highestSet, passedPoints, countSetDirectly, flaggedSinceFlush>>
    ELSE SetCurveColorWrites(
            curveIndex,
            RecoloredData(curveIndex, color, metadata),
            ApplyColorToCurve(RecoloredData(curveIndex, color, metadata), curveIndex))

\* --------------------------------------------------------------- hideCurve
RECURSIVE ZeroLoop(_, _, _, _)
ZeroLoop(buf, offset, i, total) ==
    IF i >= total THEN buf
    ELSE ZeroLoop(Store(buf, offset + i, 0), offset, i + 1, total)

HideCurve(curveIndex) ==
    IF ~SlotInRange(curveIndex)
    THEN /\ lastOp' = Call("hideCurve", curveIndex, "out of bounds")
         /\ UNCHANGED <<rendererState, highestSet, passedPoints, countSetDirectly, flaggedSinceFlush>>
    ELSE IF ~HasCurveData(curveIndex)
    THEN /\ lastOp' = Call("hideCurve", curveIndex, "threw")
         /\ UNCHANGED <<rendererState, highestSet, passedPoints, countSetDirectly, flaggedSinceFlush>>
    ELSE
        /\ curveData' = [curveData EXCEPT ![curveIndex].visible = FALSE]
        /\ positions' = ZeroLoop(positions, VertexOffset(curveIndex) * 3, 0, FloatsPerCurve)
        /\ lineDistances' = ZeroLoop(lineDistances, VertexOffset(curveIndex), 0,
                                     VerticesPerCurve)
        /\ needsPositionUpdate' = TRUE
        /\ needsLineDistanceUpdate' = TRUE
        /\ lastOp' = Flagging(Call("hideCurve", curveIndex, "returned"),
                              {"position", "lineDistance"})
        /\ flaggedSinceFlush' = flaggedSinceFlush \cup {"position", "lineDistance"}
        /\ UNCHANGED <<colors, currentCurveCount, drawRange, needsColorUpdate,
                       dashSize, gapSize, material, mesh, highestSet, passedPoints, countSetDirectly>>

\* ---------------------------------------------------- setVisibleCurveCount
SetVisibleCurveCount(count) ==
    /\ currentCurveCount' = VisibleCountFor(count)
    /\ drawRange' = DrawRangeFor(VisibleCountFor(count))
    /\ countSetDirectly' = TRUE
    /\ lastOp' = [Call("setVisibleCurveCount", count, "returned") EXCEPT !.prior = "none"]
    /\ UNCHANGED <<positions, colors, lineDistances, curveData, needsPositionUpdate,
                   needsColorUpdate, needsLineDistanceUpdate, dashSize, gapSize,
                   material, mesh, highestSet, passedPoints, flaggedSinceFlush>>

\* ------------------------------------------------------------ applyUpdates
\* mutation: the dash test dropped
MarksLineDistanceUngated(dash, flag) == flag

\* if (this.dashSize > 0 && this.needsLineDistanceUpdate)
MarksLineDistance(dash, flag) == dash > 0 /\ flag

\* mutation: the flag cleared only in the else-if branch
LineDistanceFlagAfterFlushPlainOnly(dash, flag) == IF dash = 0 THEN FALSE ELSE flag

\* needsLineDistanceUpdate when applyUpdates returns: cleared in the first
\* branch, cleared in the else-if branch (dashSize === 0), left otherwise
LineDistanceFlagAfterFlush(dash, flag) ==
    IF MarksLineDistance(dash, flag) THEN FALSE
    ELSE IF dash = 0 THEN FALSE
    ELSE flag

\* mutation: the position attribute marked on every call
MarksPositionAlways(flag) == TRUE

\* if (this.needsPositionUpdate)
MarksPosition(flag) == flag

\* the attributes whose needsUpdate applyUpdates sets
MarkedByApplyUpdates ==
    (IF MarksPosition(needsPositionUpdate) THEN <<"position">> ELSE << >>)
    \o (IF needsColorUpdate THEN <<"color">> ELSE << >>)
    \o (IF MarksLineDistance(dashSize, needsLineDistanceUpdate)
        THEN <<"lineDistance">> ELSE << >>)

\* the dirty flags applyUpdates finds set and clears
ClearedByApplyUpdates ==
    (IF needsPositionUpdate THEN {"position"} ELSE {})
    \cup (IF needsColorUpdate THEN {"color"} ELSE {})
    \cup (IF needsLineDistanceUpdate
             /\ ~LineDistanceFlagAfterFlush(dashSize, needsLineDistanceUpdate)
          THEN {"lineDistance"} ELSE {})

ApplyUpdates ==
    /\ needsPositionUpdate' = FALSE
    /\ needsColorUpdate' = FALSE
    /\ needsLineDistanceUpdate' = LineDistanceFlagAfterFlush(dashSize, needsLineDistanceUpdate)
    /\ lastOp' = [NoCall EXCEPT !.op = "applyUpdates", !.marked = MarkedByApplyUpdates,
                                !.cleared = ClearedByApplyUpdates]
    /\ flaggedSinceFlush' = {}
    /\ UNCHANGED <<positions, colors, lineDistances, curveData, currentCurveCount,
                   drawRange, dashSize, gapSize, material, mesh, highestSet, passedPoints,
                   countSetDirectly>>

\* ---------------------------------------------------------- setDashPattern
\* mutation: the early return dropped
DashPatternNeverUnchanged(nextDash, nextGap) == FALSE

\* if (this.dashSize === nextDash && this.gapSize === nextGap) return
DashPatternUnchanged(nextDash, nextGap) == dashSize = nextDash /\ gapSize = nextGap

\* mutation: the line distances never flagged
FlagsLineDistanceNever(nextDash) == FALSE

\* mutation: the test inverted
FlagsLineDistanceWhenPlain(nextDash) == nextDash = 0

\* updateMaterial: if (this.dashSize > 0) this.needsLineDistanceUpdate = true
FlagsLineDistance(nextDash) == nextDash > 0

\* mutation: the line distance attribute marked with the material
MaterialMarksWithDistance == <<"material", "lineDistance">>

\* updateMaterial: this.mesh.material.needsUpdate = true
MaterialMarks == <<"material">>

SetDashPatternCall(dash, gap) ==
    [NoCall EXCEPT !.op = "setDashPattern", !.arg = dash, !.gap = gap]

\* the assignments of a setDashPattern call that changes the pattern
SetDashPatternWrites(call, nextDash, nextGap) ==
    /\ dashSize' = nextDash
    /\ gapSize' = nextGap
    \* updateMaterial()
    /\ IF ~mesh
       THEN /\ lastOp' = call
            /\ UNCHANGED <<material, needsLineDistanceUpdate, flaggedSinceFlush>>
       ELSE /\ material' = CreateMaterial(nextDash, nextGap)
            /\ needsLineDistanceUpdate' =
                  IF FlagsLineDistance(nextDash) THEN TRUE ELSE needsLineDistanceUpdate
            /\ lastOp' = [call EXCEPT
                            !.marked = MaterialMarks,
                            !.flagged = IF FlagsLineDistance(nextDash)
                                        THEN {"lineDistance"} ELSE {}]
            /\ flaggedSinceFlush' =
                  flaggedSinceFlush \cup (IF FlagsLineDistance(nextDash)
                                          THEN {"lineDistance"} ELSE {})
    /\ UNCHANGED <<positions, colors, lineDistances, curveData,
                   currentCurveCount, drawRange, needsPositionUpdate,
                   needsColorUpdate, mesh, highestSet, passedPoints, countSetDirectly>>

SetDashPattern(dash, gap) ==
    IF DashPatternUnchanged(Max(0, dash), Max(0, gap))
    THEN /\ lastOp' = [SetDashPatternCall(dash, gap) EXCEPT !.outcome = "unchanged"]
         /\ UNCHANGED <<rendererState, highestSet, passedPoints, countSetDirectly, flaggedSinceFlush>>
    ELSE SetDashPatternWrites(SetDashPatternCall(dash, gap), Max(0, dash), Max(0, gap))

\* ------------------------------------------------------------------ remove
\* mutation: the mesh test dropped
HasMeshAlways == TRUE

\* if (this.mesh)
HasMesh == mesh

\* exists()
Exists == mesh

\* remove(): outcome "disposed" when the mesh was taken off the scene and the
\* geometry and the material were disposed, "returned" when nothing was
Remove ==
    /\ mesh' = FALSE
    /\ curveData' = << >>
    /\ lastOp' = [NoCall EXCEPT !.op = "remove",
                                !.outcome = IF HasMesh THEN "disposed" ELSE "returned"]
    /\ UNCHANGED <<positions, colors, lineDistances, currentCurveCount, drawRange,
                   needsPositionUpdate, needsColorUpdate, needsLineDistanceUpdate,
                   dashSize, gapSize, material, highestSet, passedPoints, countSetDirectly,
                   flaggedSinceFlush>>

\* ----------------------------------------------------------------- queries
\* a query changes no field of the renderer
QueryCall(call) ==
    /\ lastOp' = call
    /\ UNCHANGED <<rendererState, highestSet, passedPoints, countSetDirectly,
                   flaggedSinceFlush>>

\* isCurveVisible(curveIndex): false out of range, else the slot's visible flag
IsCurveVisible(curveIndex) ==
    QueryCall(Call("isCurveVisible", curveIndex,
                   IF ~SlotInRange(curveIndex) THEN "false"
                   ELSE IF ~HasCurveData(curveIndex) THEN "threw"
                   ELSE IF curveData[curveIndex].visible THEN "true"
                   ELSE "false"))

\* mutation: a hidden slot's stored control points still make a curve
NoCurveIgnoringVisible(data, curveIndex) == Len(data[curveIndex].controlPoints) < 2

\* if (!curveData.visible || curveData.controlPoints.length < 2) return null
NoCurve(data, curveIndex) ==
    NotVisible(data, curveIndex) \/ Len(data[curveIndex].controlPoints) < 2

\* getCurve(curveIndex): null, a TypeError on an emptied curveData, or a
\* CatmullRomCurve3 through the control points the slot holds now
GetCurve(curveIndex) ==
    IF ~SlotInRange(curveIndex)
    THEN [outcome |-> "null", controlPoints |-> << >>]
    ELSE IF ~HasCurveData(curveIndex)
    THEN [outcome |-> "threw", controlPoints |-> << >>]
    ELSE IF NoCurve(curveData, curveIndex)
    THEN [outcome |-> "null", controlPoints |-> << >>]
    ELSE [outcome |-> "curve", controlPoints |-> curveData[curveIndex].controlPoints]

\* Vector3.normalize() of an axis-parallel vector
Normalize(v) ==
    LET length == DistanceTo(v, <<0, 0, 0>>)
    IN  IF length = 0 THEN <<0, 0, 0>> ELSE [c \in 1..3 |-> v[c] \div length]

\* curve.getPointAt(t) and curve.getTangentAt(t) at the ends t = 0 and t = 1
CurvePointAt(controlPoints, t) == GetPoint(controlPoints, t, 1)
CurveTangentAt(controlPoints, t) ==
    LET n == Len(controlPoints)
    IN  IF t = 0 THEN Normalize([c \in 1..3 |-> controlPoints[2][c] - controlPoints[1][c]])
        ELSE Normalize([c \in 1..3 |-> controlPoints[n][c] - controlPoints[n - 1][c]])

\* new THREE.Vector3() and new THREE.Vector3(0, 0, 1)
PointFallback == <<0, 0, 0>>
TangentFallback == <<0, 0, 1>>

\* a getPointAt or getTangentAt call whose getCurve ended as curve says
CurveQuery(op, curveIndex, t, curve, onCurve, fallback) ==
    QueryCall([Call(op, curveIndex,
                    IF curve.outcome = "threw" THEN "threw" ELSE "returned") EXCEPT
                  !.t = t,
                  !.result = IF curve.outcome = "curve" THEN onCurve
                             ELSE IF curve.outcome = "null" THEN fallback
                             ELSE @])

GetPointAt(curveIndex, t) ==
    CurveQuery("getPointAt", curveIndex, t, GetCurve(curveIndex),
               IF GetCurve(curveIndex).outcome = "curve"
               THEN CurvePointAt(GetCurve(curveIndex).controlPoints, t)
               ELSE PointFallback,
               PointFallback)

GetTangentAt(curveIndex, t) ==
    CurveQuery("getTangentAt", curveIndex, t, GetCurve(curveIndex),
               IF GetCurve(curveIndex).outcome = "curve"
               THEN CurveTangentAt(GetCurve(curveIndex).controlPoints, t)
               ELSE TangentFallback,
               TangentFallback)

\* the caller of setCurve(slot, P, ...) keeps P: setCurve stores the array
\* itself (curveData.controlPoints = controlPoints), so an element the caller
\* assigns later is an element of the slot's stored control points
MovedPoint == Vec(Unit, 0, 0)
CallerMovesFirstPoint(curveIndex) ==
    /\ HasCurveData(curveIndex)
    /\ Len(curveData[curveIndex].controlPoints) = 2
    /\ curveData[curveIndex].controlPoints[1] # MovedPoint
    /\ curveData' = [curveData EXCEPT ![curveIndex].controlPoints[1] = MovedPoint]
    /\ lastOp' = Call("caller", curveIndex, "returned")
    /\ UNCHANGED <<positions, colors, lineDistances, currentCurveCount, drawRange,
                   needsPositionUpdate, needsColorUpdate, needsLineDistanceUpdate,
                   dashSize, gapSize, material, mesh, highestSet, passedPoints,
                   countSetDirectly, flaggedSinceFlush>>

\* -------------------------------------------------------------------- Next
\* Spec: the operations of a live renderer, in any order, with one valid curve
\* (PointsA, red), the out-of-range slots and the invalid control point lists.
\* SpecLifecycle: every method of the renderer on the slots of the renderer,
\* with one curve, and remove().
\* SpecCurves: the slot-writing operations on the slots of the renderer, with
\* several control point lists, colors and metadata, on a renderer constructed
\* without dashes.
PointInputs == {Pts(PointsA)} \cup InvalidPointInputs
\* an out-of-range slot is tried with valid points, an in-range slot with all
DoSetCurve ==
    \E curveIndex \in SlotInputs, controlPoints \in PointInputs :
        /\ curveIndex \in Slots \/ controlPoints \in ValidPointInputs
        /\ SetCurve(curveIndex, controlPoints, Red, NoMetadata)
        /\ UNCHANGED app

DoSetCurveColor ==
    \E curveIndex \in SlotInputs :
        SetCurveColor(curveIndex, Red, UndefinedMetadata) /\ UNCHANGED app

DoHideCurve == \E curveIndex \in SlotInputs : HideCurve(curveIndex) /\ UNCHANGED app

DoSetVisibleCurveCount ==
    \E count \in CountInputs : SetVisibleCurveCount(count) /\ UNCHANGED app

DoApplyUpdates == ApplyUpdates /\ UNCHANGED app

DoSetDashPattern ==
    \E dash \in DashInputs, gap \in GapInputs : SetDashPattern(dash, gap) /\ UNCHANGED app

Next ==
    \/ DoSetCurve
    \/ DoSetCurveColor
    \/ DoHideCurve
    \/ DoSetVisibleCurveCount
    \/ DoApplyUpdates
    \/ DoSetDashPattern

Spec == Init /\ [][Next]_vars

\* (color, metadata) pairs passed together
Appearances == {<<Red, NoMetadata>>, <<GradientColor(0, 0), DepartureMetadata(45, 90)>>}

DoSetAnyCurve ==
    \E curveIndex \in Slots, controlPoints \in ValidPointInputs, look \in Appearances :
        SetCurve(curveIndex, controlPoints, look[1], look[2]) /\ UNCHANGED app

DoSetAnyCurveColor ==
    \E curveIndex \in Slots, look \in Appearances :
        SetCurveColor(curveIndex, look[1], look[2]) /\ UNCHANGED app

DoHideAnyCurve == \E curveIndex \in Slots : HideCurve(curveIndex) /\ UNCHANGED app

InitCurves == Init /\ dashSize = 0

NextCurves ==
    \/ DoSetAnyCurve
    \/ DoSetAnyCurveColor
    \/ DoHideAnyCurve

SpecCurves == InitCurves /\ [][NextCurves]_vars

\* SpecDash: a renderer constructed with any dash size, the slot-writing
\* operations with one curve, every dash pattern and applyUpdates()
InitDash == InitWith(AnyCtorDashSizes, CtorGapSizes)

DoSetCurveInRange ==
    \E curveIndex \in Slots :
        SetCurve(curveIndex, Pts(PointsA), Red, NoMetadata) /\ UNCHANGED app

DoSetCurveColorInRange ==
    \E curveIndex \in Slots :
        SetCurveColor(curveIndex, Red, UndefinedMetadata) /\ UNCHANGED app

DoSetAnyDashPattern ==
    \E dash \in AnyDashInputs, gap \in AnyGapInputs :
        SetDashPattern(dash, gap) /\ UNCHANGED app

NextDash ==
    \/ DoSetCurveInRange
    \/ DoSetCurveColorInRange
    \/ DoHideAnyCurve
    \/ DoApplyUpdates
    \/ DoSetAnyDashPattern

SpecDash == InitDash /\ [][NextDash]_vars

\* SpecUpload: the operations of SpecDash, watched by an observer that records
\* which buffers the calls store into and which attributes applyUpdates() marks.
\* The buffers a call that ended as lastOp says has stored into: setCurve
\* positions, lineDistances and (the slot being visible) colors, setCurveColor
\* colors, hideCurve positions and lineDistances
WrittenBy(call) ==
    IF call.outcome # "returned" THEN {}
    ELSE IF call.op = "setCurve" THEN {"position", "lineDistance", "color"}
    ELSE IF call.op = "setCurveColor" THEN {"color"}
    ELSE IF call.op = "hideCurve" THEN {"position", "lineDistance"}
    ELSE {}

\* the attributes whose needsUpdate a call set
UploadedBy(call) ==
    {call.marked[k] : k \in 1 .. Len(call.marked)} \ {"material"}

Observe(call) ==
    app' = [app EXCEPT !.unsent = (@ \cup WrittenBy(call)) \ UploadedBy(call),
                       !.sent = IF call.op = "applyUpdates"
                                THEN app.unsent \cap UploadedBy(call) ELSE {}]

UploadSetCurve ==
    \E curveIndex \in Slots :
        SetCurve(curveIndex, Pts(PointsA), Red, NoMetadata) /\ Observe(lastOp')

UploadSetCurveColor ==
    \E curveIndex \in Slots :
        SetCurveColor(curveIndex, Red, UndefinedMetadata) /\ Observe(lastOp')

UploadHideCurve == \E curveIndex \in Slots : HideCurve(curveIndex) /\ Observe(lastOp')

UploadApplyUpdates == ApplyUpdates /\ Observe(lastOp')

UploadSetDashPattern ==
    \E dash \in AnyDashInputs, gap \in AnyGapInputs :
        SetDashPattern(dash, gap) /\ Observe(lastOp')

NextUpload ==
    \/ UploadSetCurve
    \/ UploadSetCurveColor
    \/ UploadHideCurve
    \/ UploadApplyUpdates
    \/ UploadSetDashPattern

SpecUpload == InitDash /\ [][NextUpload]_vars

\* SpecColor: setCurve and setCurveColor on the slots of the renderer with one
\* control point list and every kind of appearance: a solid
\* color with no metadata, with a departure in the metadata and with the
\* metadata left undefined, and gradients keyed at longitudes inside, on and
\* outside [-180, 180]
ColorAppearances ==
    {<<Red, NoMetadata>>, <<Red, DepartureMetadata(45, 90)>>, <<Red, UndefinedMetadata>>,
     <<GradientColor(0, 0), NoMetadata>>, <<GradientColor(0, -270), NoMetadata>>,
     <<GradientColor(0, -180), NoMetadata>>, <<GradientColor(0, 180), NoMetadata>>,
     <<GradientColor(90, 270), NoMetadata>>}

DoSetColoredCurve ==
    \E curveIndex \in Slots, look \in ColorAppearances :
        SetCurve(curveIndex, Pts(PointsA), look[1], look[2]) /\ UNCHANGED app

DoSetColoredCurveColor ==
    \E curveIndex \in Slots, look \in ColorAppearances :
        SetCurveColor(curveIndex, look[1], look[2]) /\ UNCHANGED app

NextColor ==
    \/ DoSetColoredCurve
    \/ DoSetColoredCurveColor

SpecColor == InitCurves /\ [][NextColor]_vars

\* SpecQuery: setCurve with two control point lists and hideCurve on the
\* slots of the renderer, and the queries on every slot, the out-of-range ones
\* included, at the two ends of the curve.
\* SpecAlias: the same, with a caller that assigns to the array it passed.
QueryParameters == {0, 1}

DoSetCurvePoints ==
    \E curveIndex \in Slots, controlPoints \in ValidPointInputs :
        SetCurve(curveIndex, controlPoints, Red, NoMetadata) /\ UNCHANGED app

DoIsCurveVisible ==
    \E curveIndex \in SlotInputs : IsCurveVisible(curveIndex) /\ UNCHANGED app

DoGetPointAt ==
    \E curveIndex \in SlotInputs, t \in QueryParameters :
        GetPointAt(curveIndex, t) /\ UNCHANGED app

DoGetTangentAt ==
    \E curveIndex \in SlotInputs, t \in QueryParameters :
        GetTangentAt(curveIndex, t) /\ UNCHANGED app

DoCallerMovesFirstPoint ==
    \E curveIndex \in Slots : CallerMovesFirstPoint(curveIndex) /\ UNCHANGED app

NextQuery ==
    \/ DoSetCurvePoints
    \/ DoHideAnyCurve
    \/ DoIsCurveVisible
    \/ DoGetPointAt
    \/ DoGetTangentAt

SpecQuery == InitCurves /\ [][NextQuery]_vars

NextAlias ==
    \/ NextQuery
    \/ DoCallerMovesFirstPoint

SpecAlias == InitCurves /\ [][NextAlias]_vars

DoRemove == Remove /\ UNCHANGED app

DoIsCurveVisibleInRange ==
    \E curveIndex \in Slots : IsCurveVisible(curveIndex) /\ UNCHANGED app

DoGetPointAtInRange ==
    \E curveIndex \in Slots, t \in QueryParameters :
        GetPointAt(curveIndex, t) /\ UNCHANGED app

DoGetTangentAtInRange ==
    \E curveIndex \in Slots, t \in QueryParameters :
        GetTangentAt(curveIndex, t) /\ UNCHANGED app

NextLifecycle ==
    \/ DoSetCurveInRange
    \/ DoSetCurveColorInRange
    \/ DoHideAnyCurve
    \/ DoSetVisibleCurveCount
    \/ DoApplyUpdates
    \/ DoSetDashPattern
    \/ DoIsCurveVisibleInRange
    \/ DoGetPointAtInRange
    \/ DoGetTangentAtInRange
    \/ DoRemove

SpecLifecycle == Init /\ [][NextLifecycle]_vars

\* ------------------------------------------------------------- application
\* SpecApp: the application of main.ts around one curve renderer: start-up
\* (initializeFlights), the animation loop and the GUI event handlers that
\* reach the renderer.  JavaScript runs each handler and each animation frame
\* to completion: a handler or a frame starts only at pc = "idle".
MaxEventsPerFrame == 2

\* the values the dash-size control delivers, and the flight counts asked for
AppDashValues == {-1, 0, 1}
FlightCountInputs == -1 .. (MaxCurves + 1)

\* mutation: the flight controls allow one flight more than the renderers hold
MaxFlightsBeyond == MaxCurves + 1

\* MAX_FLIGHTS: the renderers are built with maxCurves = maxPanes = MAX_FLIGHTS
MaxFlights == MaxCurves

\* preGenerateFlightConfigs() leaves one configuration for each data flight
\* that converts (of MAX_FLIGHTS data flights), or MAX_FLIGHTS random ones
ConfigCounts == 0 .. MaxFlights

\* params.numFlights as the module sets it: Math.min(5000, MAX_FLIGHTS)
DefaultNumFlights == 5000
InitialNumFlights == Min(DefaultNumFlights, MaxFlights)

\* updateFlightCount: preGeneratedConfigs.length when positive, else maxFlights
AvailableConfigs == IF app.configs > 0 THEN app.configs ELSE MaxFlights

\* initializeFlights: the number of flights it creates
InitializeDesiredCount(configs, numFlights) ==
    IF configs > 0 THEN Min(numFlights, configs) ELSE numFlights

\* mutation: every flight created on the first slot
CreateFlightFromConfigFirstSlot(flightIndex) == [curveIndex |-> 0, paneIndex |-> 0]

\* createFlightFromConfig(config, flightIndex): the flight's slots
CreateFlightFromConfig(flightIndex) ==
    [curveIndex |-> flightIndex, paneIndex |-> flightIndex]

\* the calls a flight makes on the curve renderer it is registered with
FlightCreate(flightIndex) == SetCurve(flightIndex, Pts(PointsA), Red, NoMetadata)
FlightSetControlPoints(flightIndex) == SetCurve(flightIndex, Pts(PointsB), Red, NoMetadata)
FlightSetCurveColor(flightIndex) == SetCurveColor(flightIndex, Red, UndefinedMetadata)
FlightRemove(flightIndex) == HideCurve(flightIndex)
\* flightPathManager.applyVisibility()
ApplyVisibility == SetVisibleCurveCount(app.flights)

MayHandleEvent == app.pc = "idle" /\ app.events < MaxEventsPerFrame

\* mergedCurves = new Curves(scene, {...}): a new renderer replaces the old one
Construct(dash, gap) ==
    /\ positions' = NewCurves(dash, gap).positions
    /\ colors' = NewCurves(dash, gap).colors
    /\ lineDistances' = NewCurves(dash, gap).lineDistances
    /\ curveData' = NewCurves(dash, gap).curveData
    /\ currentCurveCount' = NewCurves(dash, gap).currentCurveCount
    /\ drawRange' = NewCurves(dash, gap).drawRange
    /\ needsPositionUpdate' = FALSE
    /\ needsColorUpdate' = FALSE
    /\ needsLineDistanceUpdate' = FALSE
    /\ dashSize' = NewCurves(dash, gap).dashSize
    /\ gapSize' = NewCurves(dash, gap).gapSize
    /\ material' = NewCurves(dash, gap).material
    /\ mesh' = TRUE
    /\ highestSet' = -1
    /\ passedPoints' = [i \in Slots |-> << >>]
    /\ countSetDirectly' = FALSE
    /\ lastOp' = NoCall
    /\ flaggedSinceFlush' = {}

\* start-up: initializeFlights() has constructed the renderer with
\* params.dashSize and is about to call applyDashPattern()
InitApp ==
    /\ Constructed(AppDashValues, CtorGapSizes)
    /\ \E configs \in ConfigCounts :
          app = [AppStart EXCEPT
                   !.pc = "applyDashPattern:29",
                   !.ret = "initializeFlights:784",
                   !.configs = configs,
                   !.n = InitializeDesiredCount(configs, InitialNumFlights),
                   !.numFlights = InitializeDesiredCount(configs, InitialNumFlights),
                   !.dashSize = dashSize,
                   !.gapSize = gapSize]

\* --- animate(): applyUpdates(), then renderer.render
AnimateApplyUpdates ==
    /\ app.pc = "idle"
    /\ ApplyUpdates
    /\ app' = [app EXCEPT !.pc = "animate:1046", !.updates = @ + 1]

RendererRender ==
    /\ app.pc = "animate:1046"
    /\ lastOp' = [NoCall EXCEPT !.op = "render", !.arg = app.updates,
                                !.prior = IF app.rendered THEN "rendered" ELSE "none"]
    /\ app' = [app EXCEPT !.pc = "idle", !.updates = 0, !.events = 0, !.rendered = TRUE]
    /\ UNCHANGED <<rendererState, highestSet, passedPoints, countSetDirectly, flaggedSinceFlush>>

\* --- FlightPathManager.setDashSize(value) and applyDashPattern()
OnDashSizeChange ==
    \E value \in AppDashValues :
        /\ MayHandleEvent
        /\ app' = IF app.dashSize = value
                  THEN [app EXCEPT !.events = @ + 1]
                  ELSE [app EXCEPT !.events = @ + 1, !.dashSize = value,
                                   !.pc = "applyDashPattern:29", !.ret = "idle"]
        /\ UNCHANGED <<rendererState, highestSet, passedPoints, countSetDirectly, lastOp,
                       flaggedSinceFlush>>

ApplyDashPatternSet ==
    /\ app.pc = "applyDashPattern:29"
    /\ SetDashPattern(app.dashSize, app.gapSize)
    /\ app' = [app EXCEPT !.pc = "applyDashPattern:31"]

ApplyDashPatternApplyUpdates ==
    /\ app.pc = "applyDashPattern:31"
    /\ ApplyUpdates
    /\ app' = [app EXCEPT !.pc = app.ret, !.ret = "idle", !.i = 0, !.updates = @ + 1]

\* --- ControlsManager.updateFlightCount(target)
\* mutation: the target not capped by the configurations
DesiredCountUncapped(target) == Max(target, 0)

\* Math.min(Math.max(target, 0), availableConfigs)
DesiredCount(target) == Min(Max(target, 0), AvailableConfigs)

\* mutation: the loop creating flights starts at 0
FirstNewFlightZero(currentCount) == 0

\* for (let i = currentCount; i < desiredCount; i++)
FirstNewFlight(currentCount) == currentCount

\* flights.splice(desiredCount): what stays and what is returned
SpliceKept(flights, desiredCount) == SubSeq(flights, 1, Min(desiredCount, Len(flights)))
SpliceRemoved(flights, desiredCount) == SubSeq(flights, desiredCount + 1, Len(flights))

OnFlightCountChange ==
    \E target \in FlightCountInputs :
        /\ MayHandleEvent
        /\ app' = [app EXCEPT
                     !.events = @ + 1,
                     !.target = target,
                     !.before = app.flightList,
                     !.calls = << >>,
                     !.numFlights = DesiredCount(target),
                     !.pc = IF DesiredCount(target) > app.flights
                            THEN "updateFlightCount:101"
                            ELSE IF DesiredCount(target) < app.flights
                            THEN "updateFlightCount:144"
                            ELSE "updateFlightCount:147",
                     \* grow: i runs from flights.length to desiredCount;
                     \* shrink: flights.splice(desiredCount), then remove the rest
                     !.i = IF DesiredCount(target) > app.flights
                           THEN FirstNewFlight(app.flights) ELSE DesiredCount(target),
                     !.n = IF DesiredCount(target) > app.flights
                           THEN DesiredCount(target) ELSE app.flights,
                     !.flights = IF DesiredCount(target) < app.flights
                                 THEN DesiredCount(target) ELSE app.flights,
                     !.flightList = IF DesiredCount(target) < app.flights
                                    THEN SpliceKept(app.flightList, DesiredCount(target))
                                    ELSE app.flightList,
                     !.toRemove = IF DesiredCount(target) < app.flights
                                  THEN SpliceRemoved(app.flightList, DesiredCount(target))
                                  ELSE << >>]
        /\ UNCHANGED <<rendererState, highestSet, passedPoints, countSetDirectly, lastOp,
                       flaggedSinceFlush>>

UpdateFlightCountCreate ==
    /\ app.pc = "updateFlightCount:101"
    /\ app.i < app.n
    /\ FlightCreate(CreateFlightFromConfig(app.i).curveIndex)
    /\ app' = [app EXCEPT !.i = @ + 1, !.flights = @ + 1,
                          !.flightList = Append(@, CreateFlightFromConfig(app.i)),
                          !.calls = Append(@, <<"createFlightFromConfig", app.i>>)]

UpdateFlightCountApplyUpdates ==
    /\ app.pc = "updateFlightCount:101"
    /\ app.i >= app.n
    /\ ApplyUpdates
    /\ app' = [app EXCEPT !.pc = "updateFlightCount:147", !.updates = @ + 1]

\* flightsToRemove.forEach((flight) => flight.remove())
UpdateFlightCountRemove ==
    /\ app.pc = "updateFlightCount:144"
    /\ app.toRemove # << >>
    /\ FlightRemove(Head(app.toRemove).curveIndex)
    /\ app' = [app EXCEPT !.i = @ + 1,
                          !.toRemove = Tail(@),
                          !.calls = Append(@, <<"remove", Head(app.toRemove).curveIndex>>),
                          !.pc = IF Tail(app.toRemove) = << >>
                                 THEN "updateFlightCount:147" ELSE @]

\* updatePathVisibility(), then updatePlaneVisibility()
UpdateFlightCountVisibility ==
    /\ app.pc = "updateFlightCount:147"
    /\ ApplyVisibility
    /\ app' = [app EXCEPT !.pc = "updateFlightCount:150",
                          !.calls = @ \o << <<"updatePathVisibility", 0>>,
                                            <<"updatePlaneVisibility", 0>> >>]

\* this.syncFlightCount(this.params.numFlights)
UpdateFlightCountSync ==
    /\ app.pc = "updateFlightCount:150"
    /\ app' = [app EXCEPT !.pc = "updateFlightCount:153",
                          !.calls = Append(@, <<"syncFlightCount", app.numFlights>>)]
    /\ UNCHANGED <<rendererState, highestSet, passedPoints, countSetDirectly, lastOp,
                   flaggedSinceFlush>>

\* the call returns: its locals are gone
UpdateFlightCountReturn ==
    /\ app.pc = "updateFlightCount:153"
    /\ app' = [app EXCEPT !.pc = "idle", !.i = 0, !.n = 0, !.target = 0,
                          !.before = << >>, !.calls = << >>]
    /\ UNCHANGED <<rendererState, highestSet, passedPoints, countSetDirectly, lastOp,
                   flaggedSinceFlush>>

\* --- randomizeAllFlightCurves()
OnRandomize ==
    /\ MayHandleEvent
    /\ app' = [app EXCEPT !.events = @ + 1, !.i = 0, !.n = app.flights,
                          !.pc = "randomizeAllFlightCurves:901"]
    /\ UNCHANGED <<rendererState, highestSet, passedPoints, countSetDirectly, lastOp,
                   flaggedSinceFlush>>

RandomizeSetControlPoints ==
    /\ app.pc = "randomizeAllFlightCurves:901"
    /\ app.i < app.n
    /\ FlightSetControlPoints(app.flightList[app.i + 1].curveIndex)
    /\ app' = [app EXCEPT !.pc = "randomizeAllFlightCurves:904"]

RandomizeSetCurveColor ==
    /\ app.pc = "randomizeAllFlightCurves:904"
    /\ FlightSetCurveColor(app.flightList[app.i + 1].curveIndex)
    /\ app' = [app EXCEPT !.pc = "randomizeAllFlightCurves:901", !.i = @ + 1]

RandomizeApplyUpdates ==
    /\ app.pc = "randomizeAllFlightCurves:901"
    /\ app.i >= app.n
    /\ ApplyUpdates
    /\ app' = [app EXCEPT !.pc = "idle", !.i = 0, !.n = 0, !.updates = @ + 1]

\* --- updateSegmentCount() -> initializeFlights()
OnReinitialize ==
    /\ MayHandleEvent
    /\ app' = [app EXCEPT !.events = @ + 1, !.i = 0, !.n = app.flights,
                          !.pc = "initializeFlights:744"]
    /\ UNCHANGED <<rendererState, highestSet, passedPoints, countSetDirectly, lastOp,
                   flaggedSinceFlush>>

InitializeRemoveFlight ==
    /\ app.pc = "initializeFlights:744"
    /\ app.i < app.n
    /\ FlightRemove(app.flightList[app.i + 1].curveIndex)
    /\ app' = [app EXCEPT !.i = @ + 1]

InitializeRemoveCurves ==
    /\ app.pc = "initializeFlights:744"
    /\ app.i >= app.n
    /\ Remove
    /\ app' = [app EXCEPT !.pc = "initializeFlights:756", !.flights = 0,
                          !.flightList = << >>]

InitializeConstruct ==
    /\ app.pc = "initializeFlights:756"
    /\ Construct(app.dashSize, app.gapSize)
    /\ app' = [app EXCEPT !.pc = "applyDashPattern:29",
                          !.ret = "initializeFlights:784",
                          !.i = 0,
                          !.n = InitializeDesiredCount(app.configs, app.numFlights),
                          !.numFlights = InitializeDesiredCount(app.configs, app.numFlights)]

InitializeCreate ==
    /\ app.pc = "initializeFlights:784"
    /\ app.i < app.n
    /\ FlightCreate(CreateFlightFromConfig(app.i).curveIndex)
    /\ app' = [app EXCEPT !.i = @ + 1, !.flights = @ + 1,
                          !.flightList = Append(@, CreateFlightFromConfig(app.i))]

InitializeVisibility ==
    /\ app.pc = "initializeFlights:784"
    /\ app.i >= app.n
    /\ ApplyVisibility
    /\ app' = [app EXCEPT !.pc = "idle", !.i = 0, !.n = 0]

NextApp ==
    \/ AnimateApplyUpdates
    \/ RendererRender
    \/ OnDashSizeChange
    \/ ApplyDashPatternSet
    \/ ApplyDashPatternApplyUpdates
    \/ OnFlightCountChange
    \/ UpdateFlightCountCreate
    \/ UpdateFlightCountApplyUpdates
    \/ UpdateFlightCountRemove
    \/ UpdateFlightCountVisibility
    \/ UpdateFlightCountSync
    \/ UpdateFlightCountReturn
    \/ OnRandomize
    \/ RandomizeSetControlPoints
    \/ RandomizeSetCurveColor
    \/ RandomizeApplyUpdates
    \/ OnReinitialize
    \/ InitializeRemoveFlight
    \/ InitializeRemoveCurves
    \/ InitializeConstruct
    \/ InitializeCreate
    \/ InitializeVisibility

SpecApp == InitApp /\ [][NextApp]_vars

\* ------------------------------------------------ asynchronous collaborators
\* SpecAsync: the application's asynchronous parts after the start-up script:
\* the SVG atlas build (loadSvgTexture) with the marker renderer it serves
\* (applyPaneTexture, re-initialisation, the pane style control) and the
\* start-up gate (earth texture, minimum loading time).  A task (an event
\* handler, a timer, a loader callback) starts only when no handler runs and
\* no promise reaction job is queued.
PaneStyles == {"Pane", "SVG"}

RendererUntouched ==
    UNCHANGED <<rendererState, highestSet, passedPoints, countSetDirectly, lastOp,
                flaggedSinceFlush>>

MayRunTask == app.pc = "idle" /\ app.jobs = << >>

InFlight(a) == {id \in BuildIds : a.builds[id] \in {"fetch", "image", "texture"}}
HasFreeBuild(a) == \E id \in BuildIds : a.builds[id] = "free"

\* if (svgTexture && svgAtlasInfo)
HasCachedTexture(a) == a.svgTexture /\ a.svgAtlasInfo

\* mutation: the pending promise not looked at
HasPendingPromiseNever(promise) == FALSE

\* if (svgTexturePromise)
HasPendingPromise(promise) == promise # 0

\* loadSvgTexture(): the cached texture, the pending promise, or a new build
LoadSvgTexture(a) ==
    IF HasCachedTexture(a)
    THEN [a EXCEPT !.lastLoad = [prior |-> a.buildOutcome, result |-> "cached",
                                 promise |-> 0]]
    ELSE IF HasPendingPromise(a.svgTexturePromise)
    THEN [a EXCEPT !.lastLoad = [prior |-> a.buildOutcome, result |-> "pending",
                                 promise |-> a.svgTexturePromise]]
    ELSE LET id == CHOOSE b \in BuildIds : a.builds[b] = "free"
         IN  [a EXCEPT !.builds[id] = "fetch",
                       !.svgTexturePromise = id,
                       !.buildOutcome = "pending",
                       !.lastLoad = [prior |-> a.buildOutcome, result |-> "started",
                                     promise |-> id]]

\* a loadSvgTexture call can be modelled: it starts no build or a build is free
MayLoad(a) ==
    HasCachedTexture(a) \/ HasPendingPromise(a.svgTexturePromise) \/ HasFreeBuild(a)

\* .then(callback) on the promise the last loadSvgTexture call returned;
\* origin names the function that attached the callback
Then(a, origin) ==
    IF a.lastLoad.result = "cached"
    THEN [a EXCEPT !.jobs = Append(@, [stale |-> FALSE, origin |-> origin])]
    ELSE [a EXCEPT !.waiting = Append(@, [promise |-> a.lastLoad.promise,
                                          stale |-> FALSE, origin |-> origin])]

\* applyPaneTexture()
ApplyPaneTexture(a) ==
    IF a.paneStyle = "SVG"
    THEN IF HasCachedTexture(a)
         THEN [a EXCEPT !.paneTexture = "atlas"]
         ELSE Then(LoadSvgTexture([a EXCEPT !.paneTexture = "null"]), "applyPaneTexture")
    ELSE [a EXCEPT !.paneTexture = "null"]

\* mutation: the style not looked at on completion
CompletionAppliesAlways(style) == TRUE

\* if (params.paneStyle === "SVG" && mergedPanes)
CompletionApplies(style) == style = "SVG"

\* mergedPanes.setTexture(texture, info): mergedPanes is read when the callback
\* runs, so the renderer is the current one
CompletionTarget(handler) == "current"

\* the then-callback of applyPaneTexture, run as a promise reaction job
RunCompletion ==
    /\ app.pc = "idle"
    /\ app.jobs # << >>
    /\ app' = [app EXCEPT
                 !.jobs = Tail(@),
                 !.paneTexture = IF CompletionApplies(app.paneStyle)
                                    /\ CompletionTarget(Head(app.jobs)) = "current"
                                 THEN "atlas" ELSE @,
                 !.replacedSets = IF CompletionApplies(app.paneStyle)
                                     /\ CompletionTarget(Head(app.jobs)) # "current"
                                  THEN @ + 1 ELSE @,
                 !.lastJob = [stale |-> Head(app.jobs).stale,
                              origin |-> Head(app.jobs).origin,
                              style |-> app.paneStyle,
                              applied |-> CompletionApplies(app.paneStyle)]]
    /\ RendererUntouched

\* the handlers attached to a promise, and the others
WaitingOn(a, id) == SelectSeq(a.waiting, LAMBDA h : h.promise = id)
NotWaitingOn(a, id) == SelectSeq(a.waiting, LAMBDA h : h.promise # id)
Reactions(handlers) ==
    [k \in 1 .. Len(handlers) |-> [stale |-> handlers[k].stale,
                                    origin |-> handlers[k].origin]]

\* await fetch(url) and response.text() done
BuildFetched ==
    \E id \in BuildIds :
        /\ MayRunTask
        /\ app.builds[id] = "fetch"
        /\ app' = [app EXCEPT !.builds[id] = "image"]
        /\ RendererUntouched

\* img.onload: the atlas is drawn, svgAtlasInfo set and the texture load started
BuildImageDecoded ==
    \E id \in BuildIds :
        /\ MayRunTask
        /\ app.builds[id] = "image"
        /\ app' = [app EXCEPT !.builds[id] = "texture", !.svgAtlasInfo = TRUE]
        /\ RendererUntouched

\* textureLoader.load onLoad: svgTexture = texture; resolve(...)
BuildTextureLoaded ==
    \E id \in BuildIds :
        /\ MayRunTask
        /\ app.builds[id] = "texture"
        /\ app' = [app EXCEPT !.builds[id] = "fulfilled",
                              !.svgTexture = TRUE,
                              !.buildOutcome = "succeeded",
                              !.jobs = Reactions(WaitingOn(app, id)),
                              !.waiting = NotWaitingOn(app, id)]
        /\ RendererUntouched

\* the fetch, the image decode or the texture load fails: the catch block
\* clears svgTexturePromise and rethrows, and the callers' catch swallows
BuildFailed ==
    \E id \in BuildIds :
        /\ MayRunTask
        /\ id \in InFlight(app)
        /\ app' = [app EXCEPT !.builds[id] = "free",
                              !.svgTexturePromise = 0,
                              !.buildOutcome = "failed",
                              !.waiting = NotWaitingOn(app, id)]
        /\ RendererUntouched

\* PlaneControlsManager.setPaneStyle(value): the style is stored and the
\* texture applied through loadSvgTexture() and getMergedPanes()
OnPaneStyleChange ==
    \E value \in PaneStyles :
        /\ MayRunTask
        /\ Len(app.waiting) < MaxWaiting
        /\ MayLoad(app)
        /\ app' = IF value = "SVG"
                  THEN Then(LoadSvgTexture([app EXCEPT !.paneStyle = value]), "setPaneStyle")
                  ELSE [app EXCEPT !.paneStyle = value, !.paneTexture = "null"]
        /\ RendererUntouched

\* initializeFlights(): mergedPanes.remove(), new PlanesShader, applyPaneTexture()
OnReinitializePanes ==
    /\ MayRunTask
    /\ Len(app.waiting) < MaxWaiting
    /\ MayLoad(app)
    /\ app' = ApplyPaneTexture(
                 [app EXCEPT !.paneTexture = "unset",
                             !.waiting = [k \in 1 .. Len(@) |-> [@[k] EXCEPT !.stale = TRUE]]])
    /\ RendererUntouched

\* --- the start-up gate
\* new Earth(3000, callback): the texture has loaded
OnEarthTextureLoaded ==
    /\ MayRunTask
    /\ ~app.earthTextureLoaded
    /\ app' = [app EXCEPT !.earthTextureLoaded = TRUE, !.lastEvent = "earth",
                          !.pc = "checkReadyToStart:382"]
    /\ RendererUntouched

\* the 2000 ms timer
OnMinTimeElapsed ==
    /\ MayRunTask
    /\ ~app.minTimeElapsed
    /\ app' = [app EXCEPT !.minTimeElapsed = TRUE, !.lastEvent = "timer",
                          !.pc = "checkReadyToStart:382"]
    /\ RendererUntouched

\* mutation: one of the two events is enough
ReadyToStartEither(earthLoaded, minElapsed) == earthLoaded \/ minElapsed

\* if (window.earthTextureLoaded && window.minTimeElapsed)
ReadyToStart(earthLoaded, minElapsed) == earthLoaded /\ minElapsed

CheckReadyToStart ==
    /\ app.pc = "checkReadyToStart:382"
    /\ app' = [app EXCEPT !.pc = IF ReadyToStart(app.earthTextureLoaded, app.minTimeElapsed)
                                 THEN "setInitialCameraPosition:1814" ELSE "idle"]
    /\ RendererUntouched

\* if (!earth || initialCameraPositioned) return; ... initialCameraPositioned =
\* true; uiManager.removeLoadingScreen()
SetInitialCameraPosition ==
    /\ app.pc = "setInitialCameraPosition:1814"
    /\ app' = IF app.initialCameraPositioned
              THEN [app EXCEPT !.pc = "idle"]
              ELSE [app EXCEPT !.pc = "idle",
                               !.initialCameraPositioned = TRUE,
                               !.positioned = @ + 1,
                               !.loadingScreen = FALSE]
    /\ RendererUntouched

\* the start-up script has run: initializeFlights() has built the renderers
\* and applyPaneTexture() has started the first atlas build
InitAsync ==
    /\ Constructed({0}, CtorGapSizes)
    /\ app = ApplyPaneTexture(AppStart)

NextAsync ==
    \/ RunCompletion
    \/ BuildFetched
    \/ BuildImageDecoded
    \/ BuildTextureLoaded
    \/ BuildFailed
    \/ OnPaneStyleChange
    \/ OnReinitializePanes
    \/ OnEarthTextureLoaded
    \/ OnMinTimeElapsed
    \/ CheckReadyToStart
    \/ SetInitialCameraPosition

SpecAsync == InitAsync /\ [][NextAsync]_vars

\* a handler that has started runs to its end
SpecAsyncFair ==
    SpecAsync /\ WF_vars(CheckReadyToStart) /\ WF_vars(SetInitialCameraPosition)

\* ------------------------------------------------------------ plane settings
\* PlaneControlsManager as main.ts constructs it: parsePlaneColor is
\* parseHexColor, fallbackPlaneColor is DEFAULT_PLANE_COLOR, and the sync
\* callbacks only refresh the GUI display.  An argument is a finite number, NaN,
\* an infinity, a string of hexadecimal digits (possibly empty) or undefined.
DefaultPlaneColor == 16737894
FallbackPlaneColor == DefaultPlaneColor
PlaneValues == {1, 2}
GreenDigits == <<0, 0, 15, 15, 0, 0>>
PlaneColors == {65280, DefaultPlaneColor}

FiniteInputs(values) == {[kind |-> "finite", number |-> v, digits |-> << >>] : v \in values}
NonNumberInputs ==
    {[kind |-> k, number |-> 0, digits |-> << >>] : k \in {"nan", "infinity"}}
NumericInputs == FiniteInputs(PlaneValues) \cup NonNumberInputs
ColorInputs ==
    FiniteInputs(PlaneColors) \cup NonNumberInputs
        \cup {[kind |-> "hex", number |-> 0, digits |-> d] : d \in {GreenDigits, << >>}}
        \cup {[kind |-> "undefined", number |-> 0, digits |-> << >>]}

\* Number.isFinite(Number(value))
NumberIsFinite(input) == input.kind = "finite"

\* mutation: the argument stored without the finiteness test
NumericSettingRaw(input, current) == input.number

\* Number.isFinite(numeric) ? numeric : this.params.<setting>
NumericSetting(input, current) ==
    IF NumberIsFinite(input) THEN input.number ELSE current

\* parseInt(normalized, 16) on a string of hexadecimal digits
RECURSIVE ParseInt16(_, _)
ParseInt16(digits, acc) ==
    IF digits = << >> THEN acc ELSE ParseInt16(Tail(digits), 16 * acc + Head(digits))

\* parseHexColor(colorValue, fallback)
ParseHexColor(input, fallback) ==
    IF input.kind = "finite" THEN input.number
    ELSE IF input.kind = "hex" /\ Len(input.digits) > 0 THEN ParseInt16(input.digits, 0)
    ELSE fallback

\* normalizeColor(value): this.parsePlaneColor(input, this.fallbackPlaneColor)
NormalizeColor(input) == ParseHexColor(input, FallbackPlaneColor)

\* flights.forEach(flight => flight.<setter>(value)) and then the sync callback
PlaneCalls(a, setter, sync, value) ==
    [k \in 1 .. Len(a.planeFlights) |-> <<setter, k, value>>] \o <<<<sync, 0, value>>>>

\* the early return of a setter
PlaneReturn(a, op, input) ==
    [a EXCEPT !.planeCalls = << >>, !.lastPlane = [op |-> op, input |-> input]]

\* PlaneControlsManager.setPlaneSize(value)
SetPlaneSize ==
    \E input \in NumericInputs :
        /\ app.pc = "idle"
        /\ app' = LET planeSize == NumericSetting(input, app.planeParams.planeSize)
                  IN  IF app.planeParams.planeSize = planeSize
                      THEN PlaneReturn(app, "setPlaneSize", input)
                      ELSE [app EXCEPT
                              !.planeParams.planeSize = planeSize,
                              !.planeFlights = [k \in 1 .. Len(@) |->
                                                  [@[k] EXCEPT !.paneSize = planeSize]],
                              !.planeConfigs = [k \in 1 .. Len(@) |->
                                                  [@[k] EXCEPT !.paneSize = planeSize]],
                              !.planeCalls = PlaneCalls(app, "setPaneSize", "syncPlaneSize",
                                                        planeSize),
                              !.lastPlane = [op |-> "setPlaneSize", input |-> input]]
        /\ RendererUntouched

\* PlaneControlsManager.setPlaneColor(value)
SetPlaneColor ==
    \E input \in ColorInputs :
        /\ app.pc = "idle"
        /\ app' = LET normalized == NormalizeColor(input)
                  IN  IF app.planeParams.planeColor = normalized
                      THEN PlaneReturn(app, "setPlaneColor", input)
                      ELSE [app EXCEPT
                              !.planeParams.planeColor = normalized,
                              !.planeFlights = [k \in 1 .. Len(@) |->
                                                  [@[k] EXCEPT !.paneColor = normalized]],
                              !.planeConfigs = [k \in 1 .. Len(@) |->
                                                  [@[k] EXCEPT !.paneColor = normalized]],
                              !.planeCalls = PlaneCalls(app, "setPaneColor", "syncPlaneColor",
                                                        normalized),
                              !.lastPlane = [op |-> "setPlaneColor", input |-> input]]
        /\ RendererUntouched

\* PlaneControlsManager.setElevationOffset(value)
SetElevationOffset ==
    \E input \in NumericInputs :
        /\ app.pc = "idle"
        /\ app' = LET offset == NumericSetting(input, app.planeParams.elevationOffset)
                  IN  IF app.planeParams.elevationOffset = offset
                      THEN PlaneReturn(app, "setElevationOffset", input)
                      ELSE [app EXCEPT
                              !.planeParams.elevationOffset = offset,
                              !.planeFlights = [k \in 1 .. Len(@) |->
                                                  [@[k] EXCEPT !.paneElevation = offset]],
                              !.planeConfigs = [k \in 1 .. Len(@) |->
                                                  [@[k] EXCEPT !.elevationOffset = offset]],
                              !.planeCalls = PlaneCalls(app, "setPaneElevation",
                                                        "syncElevationOffset", offset),
                              !.lastPlane = [op |-> "setElevationOffset", input |-> input]]
        /\ RendererUntouched

\* the parameters as the GUI may have left them, the flights and the configs
\* with the values they were created with
InitPlane ==
    /\ Constructed({0}, CtorGapSizes)
    /\ \E size \in PlaneValues, color \in PlaneColors, offset \in PlaneValues,
          flights \in 0 .. MaxFlights, configs \in 0 .. MaxFlights,
          own \in [size : PlaneValues, color : PlaneColors, offset : PlaneValues] :
           app = [AppStart EXCEPT
                    !.planeParams = [planeSize |-> size, planeColor |-> color,
                                     elevationOffset |-> offset],
                    !.planeFlights = [k \in 1 .. flights |->
                                        [paneSize |-> own.size, paneColor |-> own.color,
                                         paneElevation |-> own.offset]],
                    !.planeConfigs = [k \in 1 .. configs |->
                                        [paneSize |-> own.size, paneColor |-> own.color,
                                         elevationOffset |-> own.offset]]]

NextPlane ==
    \/ SetPlaneSize
    \/ SetPlaneColor
    \/ SetElevationOffset

SpecPlane == InitPlane /\ [][NextPlane]_vars

\* ================================================================ properties
\* the vertex indices of slot j and the slot's part of each buffer
SlotVertices(j) == (j * 2 * SegmentsPerCurve) .. ((j + 1) * 2 * SegmentsPerCurve - 1)
Vec3Region(buf, j) == [v \in SlotVertices(j) |-> <<buf[3 * v], buf[3 * v + 1], buf[3 * v + 2]>>]
DistanceRegion(buf, j) == [v \in SlotVertices(j) |-> buf[v]]
RegionOf(j) == <<Vec3Region(positions, j), Vec3Region(colors, j),
                 DistanceRegion(lineDistances, j)>>
ZeroVec3Region(j) == [v \in SlotVertices(j) |-> <<0, 0, 0>>]
ZeroDistanceRegion(j) == [v \in SlotVertices(j) |-> 0]

SlotWriters == {"setCurve", "setCurveColor", "hideCurve"}
OutOfRange(slot) == slot < 0 \/ slot >= MaxCurves

\* C1 (isolation): a setCurve, setCurveColor or hideCurve call on slot i leaves
\* the positions, colors and lineDistances regions and the curveData entry of
\* every other slot j unchanged.
C1_Isolation ==
    [][(lastOp'.op \in SlotWriters /\ lastOp'.arg \in Slots)
        => \A j \in Slots \ {lastOp'.arg} :
              /\ RegionOf(j)' = RegionOf(j)
              /\ curveData'[j] = curveData[j]]_vars

\* a call on the last slot has returned while slot 0 holds a visible curve
C1_Witness ==
    /\ lastOp.op \in SlotWriters
    /\ lastOp.arg = MaxCurves - 1
    /\ lastOp.outcome = "returned"
    /\ curveData[0].visible
    /\ Vec3Region(colors, 0) # ZeroVec3Region(0)
    /\ DistanceRegion(lineDistances, 0) # ZeroDistanceRegion(0)

\* C2 (out-of-range slot): setCurve, setCurveColor and hideCurve with a slot
\* < 0 or >= maxCurves return without throwing and change no buffer, no
\* curveData entry, not currentCurveCount, the draw range or a dirty flag.
C2_OutOfRangeNoOp ==
    [][(lastOp'.op \in SlotWriters /\ OutOfRange(lastOp'.arg))
        => (UNCHANGED rendererState /\ lastOp'.outcome # "threw")]_vars

\* setCurve with valid points was called on slot maxCurves of a live renderer
\* that holds a visible curve
C2_Witness ==
    /\ lastOp.op = "setCurve"
    /\ lastOp.arg = MaxCurves
    /\ lastOp.points >= 2
    /\ mesh
    /\ \E j \in DOMAIN curveData : curveData[j].visible

\* C3 (insufficient control points): setCurve on an in-range slot with null
\* points or fewer than 2 points changes nothing: the slot's curveData entry,
\* the buffers, currentCurveCount and the dirty flags are as before the call.
C3_TooFewPointsNoOp ==
    [][(lastOp'.op = "setCurve" /\ lastOp'.arg \in Slots /\ lastOp'.points < 2)
        => UNCHANGED rendererState]_vars

\* setCurve with a single point was called on a slot holding a visible curve
C3_Witness ==
    /\ lastOp.op = "setCurve"
    /\ lastOp.arg \in Slots
    /\ lastOp.points = 1
    /\ lastOp.prior = "visible"
    /\ curveData[lastOp.arg].visible

\* C4 (invisible-slot mutation): setCurveColor on an in-range slot whose
\* visible flag is false changes nothing (colors, stored color and metadata,
\* visible flag, needsColorUpdate, positions).
C4_HiddenColorNoOp ==
    [][(/\ lastOp'.op = "setCurveColor"
        /\ lastOp'.arg \in Slots
        /\ lastOp'.arg \in DOMAIN curveData
        /\ ~curveData[lastOp'.arg].visible)
        => UNCHANGED rendererState]_vars

\* setCurveColor was called on a slot that had been set and then hidden
C4_Witness ==
    /\ lastOp.op = "setCurveColor"
    /\ lastOp.arg \in Slots
    /\ lastOp.prior = "hidden"
    /\ ~curveData[lastOp.arg].visible

\* C5 (draw-range extension): a successful setCurve on slot k sets
\* currentCurveCount to k+1 when k >= currentCurveCount and leaves it unchanged
\* otherwise; while setVisibleCurveCount has not been called,
\* currentCurveCount = (highest slot successfully set) + 1.
C5_DrawRangeExtension ==
    /\ [][(lastOp'.op = "setCurve" /\ lastOp'.outcome = "returned")
            => currentCurveCount' = IF lastOp'.arg >= currentCurveCount
                                    THEN lastOp'.arg + 1
                                    ELSE currentCurveCount]_vars
    /\ [](~countSetDirectly => currentCurveCount = highestSet + 1)

\* setCurve succeeded on the slot equal to the count, which it raised
C5_Witness ==
    /\ lastOp.op = "setCurve"
    /\ lastOp.outcome = "returned"
    /\ lastOp.arg = MaxCurves - 1
    /\ lastOp.prior = "unset"
    /\ currentCurveCount = MaxCurves
    /\ ~countSetDirectly

\* C6 (no auto-shrink): currentCurveCount decreases only in a
\* setVisibleCurveCount step, and a hideCurve step never changes it.
C6_NoAutoShrink ==
    [][/\ currentCurveCount' < currentCurveCount => lastOp'.op = "setVisibleCurveCount"
       /\ lastOp'.op = "hideCurve" => currentCurveCount' = currentCurveCount]_vars

\* the highest slot inside the draw range was hidden and the count stayed
C6_Witness ==
    /\ lastOp.op = "hideCurve"
    /\ lastOp.outcome = "returned"
    /\ lastOp.prior = "visible"
    /\ currentCurveCount = lastOp.arg + 1
    /\ currentCurveCount = MaxCurves

\* C7 (clamping), as claimed: setVisibleCurveCount(n) leaves currentCurveCount
\* = min(max(n, 0), maxCurves), so 0 <= currentCurveCount <= maxCurves always.
C7_CountClamped ==
    /\ currentCurveCount \in 0 .. MaxCurves
    /\ lastOp.op = "setVisibleCurveCount"
          => currentCurveCount = Clamp(lastOp.arg, 0, MaxCurves)

\* C8 (draw-range consistency): the draw range is always
\* (0, currentCurveCount * 2 * segmentsPerCurve), and (0, 0) after construction.
C8_DrawRangeConsistent ==
    /\ drawRange = [start |-> 0, count |-> currentCurveCount * (2 * SegmentsPerCurve)]
    /\ lastOp.op = "constructor" => drawRange = [start |-> 0, count |-> 0]

\* setCurve filled the last slot and the draw range covers every vertex
C8_Witness ==
    /\ lastOp.op = "setCurve"
    /\ lastOp.outcome = "returned"
    /\ currentCurveCount = MaxCurves
    /\ drawRange.count = MaxCurves * 2 * SegmentsPerCurve

\* C9 (hidden-slot zero invariant), as claimed: every slot whose visible flag
\* is false has only zeros in its positions, colors and lineDistances regions.
C9_HiddenAllZero ==
    \A j \in DOMAIN curveData :
        ~curveData[j].visible
            => /\ Vec3Region(positions, j) = ZeroVec3Region(j)
               /\ Vec3Region(colors, j) = ZeroVec3Region(j)
               /\ DistanceRegion(lineDistances, j) = ZeroDistanceRegion(j)

\* C9, amended: every slot whose visible flag is false has only zeros in its
\* positions and lineDistances regions (hideCurve leaves the colors region).
C9_HiddenGeometryZero ==
    \A j \in DOMAIN curveData :
        ~curveData[j].visible
            => /\ Vec3Region(positions, j) = ZeroVec3Region(j)
               /\ DistanceRegion(lineDistances, j) = ZeroDistanceRegion(j)

\* a curve was set and then hidden: geometry zero, colors still there
C9_Witness ==
    /\ lastOp.op = "hideCurve"
    /\ lastOp.prior = "visible"
    /\ ~curveData[lastOp.arg].visible
    /\ Vec3Region(positions, lastOp.arg) = ZeroVec3Region(lastOp.arg)
    /\ Vec3Region(colors, lastOp.arg) # ZeroVec3Region(lastOp.arg)

\* what setCurve(slot, P, c, m) leaves in the slot's regions on a freshly
\* constructed renderer (all buffers zero)
FreshPositions == [b \in 0 .. (TotalVertices * 3 - 1) |-> 0]
FreshDistances == [v \in 0 .. (TotalVertices - 1) |-> 0]
FreshRegionFrom(slot, written, colored) ==
    <<Vec3Region(written.positions, slot), Vec3Region(colored, slot),
      DistanceRegion(written.lineDistances, slot)>>
FreshRegionOf(slot, stored) ==
    FreshRegionFrom(slot,
        WriteCurve(FreshPositions, FreshDistances, stored.controlPoints, slot),
        ColorLoop(FreshPositions, ComputeGradientParams(stored.color, stored.metadata),
                  ResolveSolidColor(stored.color), VertexOffset(slot), 0))

\* the regions a curve through P with color c and metadata m occupies: vertex
\* 2i holds sample point i, vertex 2i+1 sample point i+1, each with the arc
\* length up to it and the color at its progress
RECURSIVE ArcLength(_, _)
ArcLength(P, n) ==
    IF n = 0 THEN 0
    ELSE ArcLength(P, n - 1)
         + DistanceTo(GetPoint(P, n - 1, SegmentsPerCurve), GetPoint(P, n, SegmentsPerCurve))
SampleOfVertex(j, v) == (v - j * 2 * SegmentsPerCurve + 1) \div 2
ExpectedRegionOf(j, stored) ==
    LET params == ComputeGradientParams(stored.color, stored.metadata)
    IN  << [v \in SlotVertices(j) |->
                GetPoint(stored.controlPoints, SampleOfVertex(j, v), SegmentsPerCurve)],
           [v \in SlotVertices(j) |->
                IF params.present
                THEN GetColorForProgress(params, SampleOfVertex(j, v), SegmentsPerCurve)
                ELSE ResolveSolidColor(stored.color)],
           [v \in SlotVertices(j) |-> ArcLength(stored.controlPoints, SampleOfVertex(j, v))] >>

\* C10 (hide-then-reuse): hideCurve leaves the slot's positions and line
\* distances all zero and the slot invisible; a successful setCurve(slot, P, c, m)
\* overwrites every position, line-distance and color entry of the slot: its
\* regions are a function of (P, c, m) alone and equal what the same call leaves
\* on a freshly constructed renderer, whatever the slot held before.
C10_HideThenReuse ==
    /\ (lastOp.op = "hideCurve" /\ lastOp.outcome = "returned")
          => /\ ~curveData[lastOp.arg].visible
             /\ Vec3Region(positions, lastOp.arg) = ZeroVec3Region(lastOp.arg)
             /\ DistanceRegion(lineDistances, lastOp.arg) = ZeroDistanceRegion(lastOp.arg)
    /\ (lastOp.op = "setCurve" /\ lastOp.outcome = "returned")
          => /\ curveData[lastOp.arg].visible
             /\ RegionOf(lastOp.arg) = ExpectedRegionOf(lastOp.arg, curveData[lastOp.arg])
             /\ RegionOf(lastOp.arg) = FreshRegionOf(lastOp.arg, curveData[lastOp.arg])

\* setCurve succeeded on a slot that had been set and hidden before
C10_Witness ==
    /\ lastOp.op = "setCurve"
    /\ lastOp.outcome = "returned"
    /\ lastOp.prior = "hidden"
    /\ Vec3Region(positions, lastOp.arg) # ZeroVec3Region(lastOp.arg)

\* the geometry attributes and the marks of a call as a set
Attributes == {"position", "color", "lineDistance"}
MarkedSet(call) == {call.marked[k] : k \in DOMAIN call.marked}
MarkCount(call, attribute) ==
    Cardinality({k \in DOMAIN call.marked : call.marked[k] = attribute})

\* C11 (dirty flags consumed), as claimed: when applyUpdates() has returned, all
\* three dirty flags are false, whatever dashSize the renderer holds; and an
\* applyUpdates() that directly follows another marks no attribute.
C11_FlagsConsumed ==
    /\ [](lastOp.op = "applyUpdates"
            => ~needsPositionUpdate /\ ~needsColorUpdate /\ ~needsLineDistanceUpdate)
    /\ [][(lastOp.op = "applyUpdates" /\ lastOp'.op = "applyUpdates")
            => lastOp'.marked = << >>]_vars

\* C12 (batching): an applyUpdates() call marks each attribute at most once,
\* and marks an attribute only if a mutating call has set its dirty flag since
\* the previous applyUpdates().
C12_Batching ==
    [][lastOp'.op = "applyUpdates"
        => /\ MarkedSet(lastOp') \subseteq Attributes
           /\ \A a \in Attributes : MarkCount(lastOp', a) <= 1
           /\ MarkedSet(lastOp') \subseteq flaggedSinceFlush]_vars

\* applyUpdates marked all three attributes at once, with curves in two slots
C12_Witness ==
    /\ lastOp.op = "applyUpdates"
    /\ MarkedSet(lastOp) = Attributes
    /\ \A j \in Slots : curveData[j].visible

\* C13 (dash gating): applyUpdates() marks the lineDistance attribute exactly
\* when dashSize > 0 and needsLineDistanceUpdate is true; never while dashSize
\* is 0 (or below), whatever the flag.
C13_DashGating ==
    [][lastOp'.op = "applyUpdates"
        => /\ ("lineDistance" \in MarkedSet(lastOp'))
                  <=> (dashSize > 0 /\ needsLineDistanceUpdate)
           /\ dashSize <= 0 => "lineDistance" \notin MarkedSet(lastOp')]_vars

\* applyUpdates found the line-distance flag set while dashSize was 0: it
\* cleared the flag and marked the positions only
C13_Witness ==
    /\ lastOp.op = "applyUpdates"
    /\ dashSize = 0
    /\ "lineDistance" \in lastOp.cleared
    /\ "lineDistance" \notin MarkedSet(lastOp)
    /\ "position" \in MarkedSet(lastOp)

\* C14 (single upload point): no call other than applyUpdates sets the
\* needsUpdate of a geometry attribute.
C14_OnlyApplyUpdatesMarks ==
    lastOp.op # "applyUpdates" => MarkedSet(lastOp) \cap Attributes = {}

\* setDashPattern replaced the material (marking the material only) and set
\* the line-distance flag
C14_Witness ==
    /\ lastOp.op = "setDashPattern"
    /\ "material" \in MarkedSet(lastOp)
    /\ "lineDistance" \in lastOp.flagged
    /\ needsLineDistanceUpdate

\* a setDashPattern step whose arguments, clamped to >= 0, equal / differ from
\* the dash pattern the renderer holds
SamePatternStep ==
    /\ lastOp'.op = "setDashPattern"
    /\ Max(0, lastOp'.arg) = dashSize
    /\ Max(0, lastOp'.gap) = gapSize
ChangedPatternStep ==
    /\ lastOp'.op = "setDashPattern"
    /\ Max(0, lastOp'.arg) # dashSize \/ Max(0, lastOp'.gap) # gapSize
    /\ mesh

\* C17 (unchanged dash pattern): setDashPattern(d, g) with max(0,d) = dashSize
\* and max(0,g) = gapSize changes nothing: dashSize, gapSize, the material, the
\* dirty flags and everything else are as before, and no material is created
\* or marked.
C17_SamePatternNoOp ==
    [][SamePatternStep
        => /\ UNCHANGED rendererState
           /\ lastOp'.marked = << >>
           /\ lastOp'.flagged = {}]_vars

\* setDashPattern(-1, -1) was called on a renderer with a curve and pattern (0, 0)
C17_Witness ==
    /\ lastOp.op = "setDashPattern"
    /\ lastOp.arg < 0
    /\ lastOp.gap < 0
    /\ lastOp.outcome = "unchanged"
    /\ dashSize = 0
    /\ \E j \in Slots : curveData[j].visible

\* C18 (changed dash pattern), as claimed: a setDashPattern call that changes
\* the pattern of a live renderer replaces the material and leaves
\* needsLineDistanceUpdate true, also when the new dashSize is 0.
C18_ChangeForcesDistanceUpload ==
    [][ChangedPatternStep
        => /\ "material" \in MarkedSet(lastOp')
           /\ needsLineDistanceUpdate']_vars

\* C18, amended: a setDashPattern call that changes the pattern of a live
\* renderer stores the clamped values and replaces the material; it sets
\* needsLineDistanceUpdate when the new dashSize is > 0 and leaves the flag as
\* it was when the new dashSize is 0.
C18_ChangeReplacesMaterial ==
    [][ChangedPatternStep
        => /\ dashSize' = Max(0, lastOp'.arg)
           /\ gapSize' = Max(0, lastOp'.gap)
           /\ "material" \in MarkedSet(lastOp')
           /\ material' = CreateMaterial(dashSize', gapSize')
           /\ needsLineDistanceUpdate' =
                 (IF dashSize' > 0 THEN TRUE ELSE needsLineDistanceUpdate)]_vars

\* the pattern was changed to a dashed one after an applyUpdates() had cleared
\* the flags: the flag is set again
C18_Witness ==
    /\ lastOp.op = "setDashPattern"
    /\ lastOp.outcome = "returned"
    /\ dashSize > 0
    /\ material.type = "LineDashedMaterial"
    /\ needsLineDistanceUpdate
    /\ flaggedSinceFlush = {"lineDistance"}
    /\ \E j \in Slots : curveData[j].visible

\* the position stored for vertex v, and the length of the segment drawn
\* between vertices v and v + 1
PositionOf(buf, v) == <<buf[3 * v], buf[3 * v + 1], buf[3 * v + 2]>>
VertexPosition(v) == PositionOf(positions, v)
RECURSIVE StoredLength(_, _)
StoredLength(j, n) ==
    IF n = 0 THEN 0
    ELSE StoredLength(j, n - 1)
         + DistanceTo(VertexPosition(j * 2 * SegmentsPerCurve + 2 * (n - 1)),
                      VertexPosition(j * 2 * SegmentsPerCurve + 2 * (n - 1) + 1))

\* C19 (dash distance): for every visible slot the stored line distances start
\* at 0, never decrease in vertex order, agree at the two vertices of each
\* joint, and end at the sum of the lengths of the slot's segments.
C19_DashDistance ==
    \A j \in DOMAIN curveData :
        curveData[j].visible =>
            LET first == j * 2 * SegmentsPerCurve
                last == first + 2 * SegmentsPerCurve - 1
            IN  /\ lineDistances[first] = 0
                /\ \A v \in first .. (last - 1) : lineDistances[v] <= lineDistances[v + 1]
                /\ \A i \in 0 .. (SegmentsPerCurve - 2) :
                      lineDistances[first + 2 * i + 1] = lineDistances[first + 2 * i + 2]
                /\ lineDistances[last] = StoredLength(j, SegmentsPerCurve)

\* the last slot holds a visible curve of length 2 * Unit through three control
\* points, next to a visible curve in slot 0
C19_Witness ==
    /\ curveData[MaxCurves - 1].visible
    /\ Len(curveData[MaxCurves - 1].controlPoints) = 3
    /\ lineDistances[MaxCurves * 2 * SegmentsPerCurve - 1] = 2 * Unit
    /\ curveData[0].visible
    /\ lineDistances[2 * SegmentsPerCurve - 1] > 0

\* C20 (buffer layout): a successful setCurve(slot, P, ...) with sample points
\* p_0..p_N of P leaves p_i in vertex slot*2N+2i and p_(i+1) in vertex
\* slot*2N+2i+1 for every segment i, changes no position or line distance
\* outside the vertices slot*2N .. slot*2N+2N-1, and leaves currentCurveCount
\* at least slot+1.
C20_BufferLayout ==
    [][(lastOp'.op = "setCurve" /\ lastOp'.outcome = "returned")
        => /\ \A i \in 0 .. (SegmentsPerCurve - 1) :
                 /\ PositionOf(positions', lastOp'.arg * 2 * SegmentsPerCurve + 2 * i)
                       = GetPoint(curveData'[lastOp'.arg].controlPoints, i, SegmentsPerCurve)
                 /\ PositionOf(positions', lastOp'.arg * 2 * SegmentsPerCurve + 2 * i + 1)
                       = GetPoint(curveData'[lastOp'.arg].controlPoints, i + 1,
                                  SegmentsPerCurve)
           /\ \A v \in (0 .. (MaxCurves * 2 * SegmentsPerCurve - 1)) \ SlotVertices(lastOp'.arg) :
                 /\ PositionOf(positions', v) = PositionOf(positions, v)
                 /\ lineDistances'[v] = lineDistances[v]
           /\ currentCurveCount' >= lastOp'.arg + 1]_vars

\* every slot has been filled, the last one last with a curve through three
\* control points: all vertices are in the draw range
C20_Witness ==
    /\ lastOp.op = "setCurve"
    /\ lastOp.outcome = "returned"
    /\ lastOp.arg = MaxCurves - 1
    /\ lastOp.points = 3
    /\ \A j \in Slots : curveData[j].visible
    /\ currentCurveCount = MaxCurves
    /\ VertexPosition(MaxCurves * 2 * SegmentsPerCurve - 1) = PointsB[3]

\* C15 (once per frame), as claimed: between two consecutive renderer.render
\* calls applyUpdates() is called exactly once on the curve renderer.
C15_OneFlushPerFrame ==
    (lastOp.op = "render" /\ lastOp.prior = "rendered") => lastOp.arg = 1

\* C16 (mutations precede the flush): between a frame's applyUpdates() and its
\* renderer.render no call is made on the curve renderer, and at the render no
\* position or color flag is pending, nor a line-distance flag when dashSize > 0.
C16_FlushedAtRender ==
    (app.pc = "animate:1046" \/ lastOp.op = "render")
        => /\ app.pc = "animate:1046" => lastOp.op = "applyUpdates"
           /\ ~needsPositionUpdate
           /\ ~needsColorUpdate
           /\ dashSize > 0 => ~needsLineDistanceUpdate

\* a frame was rendered whose applyUpdates() marked all three attributes, after
\* GUI events since the previous frame, with dashes on
C16_Witness ==
    /\ lastOp.op = "render"
    /\ lastOp.prior = "rendered"
    /\ lastOp.arg = 1
    /\ dashSize > 0
    /\ app.flights = MaxCurves
    /\ \A j \in Slots : curveData[j].visible

\* ------------------------------------------------------------ color claims
\* the color of each vertex of slot j for the stored color c and metadata m:
\* the solid color, or the gradient color at the vertex's progress
ExpectedColorsOf(j, stored) == ExpectedRegionOf(j, stored)[2]

\* a setCurve or setCurveColor call that went through on its slot
Colored(call) ==
    /\ call.op \in {"setCurve", "setCurveColor"}
    /\ call.outcome = "returned"

\* C21 (setCurveColor recomputes only the color attribute): setCurveColor on a
\* visible slot leaves positions, lineDistances, the slot's control points and
\* visible flag, currentCurveCount, needsPositionUpdate and
\* needsLineDistanceUpdate unchanged, rewrites each of the 2*segmentsPerCurve
\* color entries of the slot with the color of the new appearance, and sets
\* needsColorUpdate.
C21_ColorOnly ==
    [][(/\ lastOp'.op = "setCurveColor"
        /\ lastOp'.arg \in Slots
        /\ lastOp'.arg \in DOMAIN curveData
        /\ curveData[lastOp'.arg].visible)
        => /\ UNCHANGED <<positions, lineDistances, currentCurveCount,
                          needsPositionUpdate, needsLineDistanceUpdate>>
           /\ curveData'[lastOp'.arg].controlPoints = curveData[lastOp'.arg].controlPoints
           /\ curveData'[lastOp'.arg].visible
           /\ Vec3Region(colors', lastOp'.arg)
                 = ExpectedColorsOf(lastOp'.arg, curveData'[lastOp'.arg])
           /\ needsColorUpdate']_vars

\* setCurveColor has recolored a visible slot with a gradient while another
\* slot holds a solid color
C21_Witness ==
    /\ lastOp.op = "setCurveColor"
    /\ lastOp.outcome = "returned"
    /\ lastOp.prior = "visible"
    /\ curveData[lastOp.arg].color.kind = "gradient"
    /\ needsColorUpdate
    /\ \E j \in Slots \ {lastOp.arg} :
           curveData[j].visible /\ curveData[j].color.kind = "number"

\* the stored appearance of the slot a call was made on
StoredColor(call) == curveData[call.arg].color
StoredMetadata(call) == curveData[call.arg].metadata
IsSolid(color) == color.kind = "number"

\* every vertex of slot j holds the same RGB rgb
FlatRegion(j, rgb) == \A v \in SlotVertices(j) : Vec3Region(colors, j)[v] = rgb

\* C22 as stated (flat color mode): after setCurve or setCurveColor with a
\* solid color, every vertex of the slot has that RGB, whatever the metadata
\* passed with the call or stored by an earlier call.
C22_SolidIsFlat ==
    (Colored(lastOp) /\ IsSolid(StoredColor(lastOp)))
        => FlatRegion(lastOp.arg, StoredColor(lastOp).rgb)

\* C22 amended: after setCurve or setCurveColor with a solid color, every
\* vertex of the slot has that RGB when the metadata the slot then holds has no
\* departure; when it has one, the slot is colored with the gradient keyed at
\* that departure, and its vertices differ.
C22_SolidIsFlatWithoutDeparture ==
    (Colored(lastOp) /\ IsSolid(StoredColor(lastOp)))
        => IF StoredMetadata(lastOp).kind = "departure"
           THEN /\ Vec3Region(colors, lastOp.arg)
                      = ExpectedColorsOf(lastOp.arg,
                            [curveData[lastOp.arg] EXCEPT
                                !.color = GradientColor(StoredMetadata(lastOp).lat,
                                                        StoredMetadata(lastOp).lng)])
                /\ ~FlatRegion(lastOp.arg, StoredColor(lastOp).rgb)
           ELSE FlatRegion(lastOp.arg, StoredColor(lastOp).rgb)

\* setCurveColor passed a solid color and no metadata to a visible slot that
\* holds no departure: the slot is flat in that color
C22_Witness ==
    /\ lastOp.op = "setCurveColor"
    /\ lastOp.outcome = "returned"
    /\ IsSolid(StoredColor(lastOp))
    /\ StoredMetadata(lastOp).kind = "null"
    /\ FlatRegion(lastOp.arg, Red.rgb)

\* the HSL lightness of an RGB color
LightnessOf(rgb) ==
    (Max(rgb[1], Max(rgb[2], rgb[3])) + Min(rgb[1], Min(rgb[2], rgb[3]))) \div 2

\* 0.35 + 0.40 * n / N
RampLightness(n) ==
    (35 * ColorScale) \div 100 + (((40 * ColorScale) \div 100) * n) \div SegmentsPerCurve

\* the gradient source of the slot a call was made on
StoredParams(call) == ComputeGradientParams(StoredColor(call), StoredMetadata(call))
FirstVertex(j) == j * 2 * SegmentsPerCurve
LastVertex(j) == (j + 1) * 2 * SegmentsPerCurve - 1

\* C23 (gradient ramp): after setCurve or setCurveColor with a gradient,
\* segment i of N has lightness 0.35 + 0.40*i/N at its start vertex and
\* 0.35 + 0.40*(i+1)/N at its end vertex, with the one hue and saturation of
\* the curve; the first vertex has lightness 0.35, the last 0.75, adjacent
\* segments agree at their joint, and a gradient keyed at longitude 0 /
\* latitude 0 has hue 0.5 (180 degrees).
C23_GradientRamp ==
    (Colored(lastOp) /\ StoredColor(lastOp).kind = "gradient")
        => LET j == lastOp.arg
               region == Vec3Region(colors, j)
               params == StoredParams(lastOp)
           IN  /\ \A i \in 0 .. (SegmentsPerCurve - 1) :
                     /\ LightnessOf(region[FirstVertex(j) + 2 * i]) = RampLightness(i)
                     /\ LightnessOf(region[FirstVertex(j) + 2 * i + 1]) = RampLightness(i + 1)
                     /\ region[FirstVertex(j) + 2 * i]
                           = SetHSL(params.hue, params.saturation, RampLightness(i))
                     /\ region[FirstVertex(j) + 2 * i + 1]
                           = SetHSL(params.hue, params.saturation, RampLightness(i + 1))
               /\ LightnessOf(region[FirstVertex(j)]) = (35 * ColorScale) \div 100
               /\ LightnessOf(region[LastVertex(j)]) = (75 * ColorScale) \div 100
               /\ \A i \in 0 .. (SegmentsPerCurve - 2) :
                     region[FirstVertex(j) + 2 * i + 1] = region[FirstVertex(j) + 2 * i + 2]
               /\ (StoredColor(lastOp) = GradientColor(0, 0)) => params.hue = 180

\* a gradient keyed at longitude 0 / latitude 0 has been applied, and the
\* slot's first and last vertex differ
C23_Witness ==
    /\ Colored(lastOp)
    /\ StoredColor(lastOp) = GradientColor(0, 0)
    /\ Vec3Region(colors, lastOp.arg)[FirstVertex(lastOp.arg)]
          # Vec3Region(colors, lastOp.arg)[LastVertex(lastOp.arg)]

\* C24 (gradient hue range): for every longitude supplied as the gradient
\* source, below -180 and above 180 included, the hue computed lies in [0,1)
\* (in degrees, in 0..359), and longitudes -180 and +180 give the same hue.
C24_HueInRange ==
    /\ (Colored(lastOp) /\ StoredParams(lastOp).present)
          => StoredParams(lastOp).hue \in 0 .. 359
    /\ ComputeGradientParams(GradientColor(0, -180), NoMetadata).hue
          = ComputeGradientParams(GradientColor(0, 180), NoMetadata).hue

\* ------------------------------------------------------------ query claims
\* C25 (query fallback): getPointAt returns (0,0,0) and getTangentAt returns
\* (0,0,1), without throwing, whenever the slot is out of [0,maxCurves), was
\* never set, or is hidden, a hidden slot whose control points are still
\* stored included.
C25_QueryFallback ==
    (/\ lastOp.op \in {"getPointAt", "getTangentAt"}
     /\ lastOp.prior \in {"none", "unset", "hidden"})
        => /\ lastOp.outcome = "returned"
           /\ lastOp.op = "getPointAt" => lastOp.result = <<0, 0, 0>>
           /\ lastOp.op = "getTangentAt" => lastOp.result = <<0, 0, 1>>

\* getTangentAt was called on a hidden slot that still stores the control
\* points of its last setCurve
C25_Witness ==
    /\ lastOp.op = "getTangentAt"
    /\ lastOp.arg \in Slots
    /\ lastOp.prior = "hidden"
    /\ Len(curveData[lastOp.arg].controlPoints) >= 2
    /\ lastOp.result = <<0, 0, 1>>

\* C26 (capacity): for every slot and every control point list P of length
\* >= 2, after setCurve(slot, P, ...) and until the next setCurve or hideCurve
\* on the slot, getPointAt(slot, 0) is the first element of P and
\* getPointAt(slot, 1) the last element of P as they were when setCurve was
\* called.
C26_EndpointsAsPassed ==
    (/\ lastOp.op = "getPointAt"
     /\ lastOp.arg \in Slots
     /\ lastOp.prior = "visible")
        => /\ lastOp.outcome = "returned"
           /\ lastOp.t = 0 => lastOp.result = passedPoints[lastOp.arg][1]
           /\ lastOp.t = 1
                 => lastOp.result = passedPoints[lastOp.arg][Len(passedPoints[lastOp.arg])]

\* -------------------------------------------------------- lifecycle claims
\* C27 (calls after remove): after remove(), no later call on the renderer
\* throws: setCurve, setCurveColor, hideCurve, isCurveVisible, getPointAt and
\* getTangentAt with an in-range slot, setVisibleCurveCount, setDashPattern and
\* applyUpdates all return normally.
C27_NoThrowAfterRemove == ~Exists => lastOp.outcome # "threw"

\* C28 (remove releases once): the first remove() takes the mesh off the
\* scene, disposes geometry and material and makes exists() false; every
\* further remove() detaches and disposes nothing and leaves the state
\* unchanged.
C28_RemoveOnce ==
    [][lastOp'.op = "remove"
        => IF Exists
           THEN lastOp'.outcome = "disposed" /\ ~Exists'
           ELSE lastOp'.outcome = "returned" /\ UNCHANGED rendererState]_vars

\* remove() was called on a renderer already removed, which had held a curve
C28_Witness ==
    /\ lastOp.op = "remove"
    /\ lastOp.outcome = "returned"
    /\ ~Exists
    /\ highestSet >= 0

\* ------------------------------------------------------ idempotence, logs
\* the operations C29 names; under Spec a call's arguments are its slot, count
\* or dash size (arg), its gap size (gap) and its control point list, which the
\* number of points tells (points): the color and metadata are always the same
IdempotentOps ==
    {"setCurve", "setCurveColor", "hideCurve", "setVisibleCurveCount", "setDashPattern"}
SameCallAgain ==
    /\ lastOp'.op \in IdempotentOps
    /\ lastOp.op = lastOp'.op
    /\ lastOp.arg = lastOp'.arg
    /\ lastOp.gap = lastOp'.gap
    /\ lastOp.points = lastOp'.points

\* C29 (idempotent operations): applying setCurve, setCurveColor, hideCurve,
\* setVisibleCurveCount or setDashPattern twice in a row with the same
\* arguments leaves the renderer state (buffers, curveData, currentCurveCount,
\* dashSize/gapSize, dirty flags) as the first application left it.
C29_Idempotent == [][SameCallAgain => rendererState' = rendererState]_vars

\* hideCurve was applied to a slot that hideCurve had already hidden, on a
\* renderer whose draw range covers the slot
C29_Witness ==
    /\ lastOp.op = "hideCurve"
    /\ lastOp.outcome = "returned"
    /\ lastOp.prior = "hidden"
    /\ currentCurveCount > lastOp.arg
    /\ needsPositionUpdate

\* C30 (diagnostic log on out-of-range slot): setCurve, setCurveColor and
\* hideCurve each write a diagnostic log message when called with a slot
\* outside [0,maxCurves).
C30_OutOfRangeLogged ==
    (lastOp.op \in SlotWriters /\ OutOfRange(lastOp.arg)) => lastOp.log # << >>

\* ------------------------------------------------------ application claims
\* the calls of the running updateFlightCount with the given name, and their
\* arguments in the order they were made
CallsNamed(name) == SelectSeq(app.calls, LAMBDA c : c[1] = name)
ArgsOf(name) == [k \in 1 .. Len(CallsNamed(name)) |-> CallsNamed(name)[k][2]]
\* the slots c, c + 1, ..., d - 1 in order
SlotRun(c, d) == [k \in 1 .. Max(d - c, 0) |-> c + k - 1]
UpdateFlightCountDone == app.pc = "updateFlightCount:153"

\* C31 (slot exclusivity in the caller): the flight at array position i was
\* created with curve slot i and pane slot i, so the live flights occupy
\* exactly the slots 0 .. flights.length - 1, each slot once.
C31_SlotIsPosition ==
    /\ Len(app.flightList) = app.flights
    /\ \A p \in 1 .. Len(app.flightList) :
          /\ app.flightList[p].curveIndex = p - 1
          /\ app.flightList[p].paneIndex = p - 1
    /\ \A p, q \in 1 .. Len(app.flightList) :
          app.flightList[p].curveIndex = app.flightList[q].curveIndex => p = q

\* an updateFlightCount call has grown the array next to a flight it found,
\* after an earlier call had shrunk it
C31_Witness ==
    /\ UpdateFlightCountDone
    /\ app.before # << >>
    /\ Len(app.flightList) > Len(app.before)
    /\ lastOp.op = "setVisibleCurveCount"
    /\ app.rendered

\* C33 (updateFlightCount preserves existing flights): growing from c to d > c
\* creates exactly the flights c .. d - 1 and leaves the flights it found in
\* place; shrinking to d < c takes exactly the flights d .. c - 1 out and calls
\* remove() once on each; a target equal to the count creates and removes
\* nothing.
C33_PreservesFlights ==
    UpdateFlightCountDone =>
        LET c == Len(app.before)
            d == app.numFlights
        IN  /\ d > c => /\ ArgsOf("createFlightFromConfig") = SlotRun(c, d)
                        /\ ArgsOf("remove") = << >>
                        /\ SubSeq(app.flightList, 1, c) = app.before
                        /\ Len(app.flightList) = d
            /\ d < c => /\ ArgsOf("createFlightFromConfig") = << >>
                        /\ ArgsOf("remove")
                             = [k \in 1 .. (c - d) |-> app.before[d + k].curveIndex]
                        /\ app.flightList = SubSeq(app.before, 1, d)
            /\ d = c => /\ ArgsOf("createFlightFromConfig") = << >>
                        /\ ArgsOf("remove") = << >>
                        /\ app.flightList = app.before

\* a call that found flights has removed some of them and kept one
C33_Witness ==
    /\ UpdateFlightCountDone
    /\ Len(app.before) > Len(app.flightList)
    /\ Len(app.flightList) >= 1
    /\ ArgsOf("remove") # << >>

\* C36 (the count after updateFlightCount): flights.length and
\* params.numFlights are min(max(target, 0), available), available being the
\* number of pre-generated configs when there is one and maxFlights otherwise,
\* and syncFlightCount is called once, with that value, after the path and the
\* plane visibility updates.
C36_CountAndSync ==
    UpdateFlightCountDone =>
        LET available == IF app.configs > 0 THEN app.configs ELSE MaxFlights
            expected == Min(Max(app.target, 0), available)
            made == Len(app.calls)
        IN  /\ Len(app.flightList) = expected
            /\ app.flights = expected
            /\ app.numFlights = expected
            /\ ArgsOf("syncFlightCount") = << expected >>
            /\ made >= 3
            /\ app.calls[made] = <<"syncFlightCount", expected>>
            /\ app.calls[made - 1][1] = "updatePlaneVisibility"
            /\ app.calls[made - 2][1] = "updatePathVisibility"

\* a call asked for more flights than there are configurations, fewer of them
\* than MAX_FLIGHTS
C36_Witness ==
    /\ UpdateFlightCountDone
    /\ app.configs > 0
    /\ app.configs < MaxFlights
    /\ app.target > app.configs
    /\ Len(app.before) < app.configs

\* C37 (slots stay in capacity): every flight is created with a slot in
\* 0 .. MAX_FLIGHTS - 1, the capacity of the renderers, so no setCurve of a
\* flight ends at the out-of-range return.
C37_SlotsInCapacity ==
    /\ \A p \in 1 .. Len(app.flightList) :
          /\ app.flightList[p].curveIndex \in Slots
          /\ app.flightList[p].paneIndex \in Slots
    /\ lastOp.op = "setCurve" => lastOp.outcome # "out of bounds"

\* the last slot of the renderer was given to a flight by an updateFlightCount
\* asked for more than MAX_FLIGHTS flights, after a re-initialisation
C37_Witness ==
    /\ app.pc = "updateFlightCount:101"
    /\ app.target > MaxFlights
    /\ lastOp.op = "setCurve"
    /\ lastOp.arg = MaxCurves - 1
    /\ lastOp.outcome # "out of bounds"
    /\ app.rendered

\* -------------------------------------------------- upload and material
\* C34 (no lost upload): after an applyUpdates() no write to the positions or
\* the colors buffer is left without its attribute having been marked for
\* upload, and with dashSize > 0 no write to lineDistances is, whenever the
\* write was made.
C34_NoLostUpload ==
    lastOp.op = "applyUpdates"
        => /\ "position" \notin app.unsent
           /\ "color" \notin app.unsent
           /\ dashSize > 0 => "lineDistance" \notin app.unsent

\* an applyUpdates() has marked the lineDistance attribute for a write made
\* before an earlier applyUpdates() that marked the positions of the same call
\* and not the distances, dashing having been enabled since
C34_Witness ==
    /\ lastOp.op = "applyUpdates"
    /\ app.sent = {"lineDistance"}
    /\ dashSize > 0
    /\ \E j \in Slots : curveData[j].visible

\* C35 (material mode): on a live renderer the material is the dashed one
\* exactly when dashSize > 0, a dashed material carries the renderer's
\* dashSize and max(gapSize, 0.0001), and after a setDashPattern call
\* dashSize >= 0 and gapSize >= 0.
C35_MaterialMode ==
    /\ Exists =>
          /\ material.type = "LineDashedMaterial" <=> dashSize > 0
          /\ material.type = "LineBasicMaterial" <=> ~(dashSize > 0)
          /\ material.type = "LineDashedMaterial" =>
                /\ material.dashSize = dashSize
                /\ material.gapSize = (IF gapSize * GapScale > MinMaterialGap
                                       THEN gapSize * GapScale ELSE MinMaterialGap)
    /\ lastOp.op = "setDashPattern" => dashSize >= 0 /\ gapSize >= 0

\* a negative gap was passed to a dashed renderer with a gap: the material
\* carries the least gap
C35_Witness ==
    /\ lastOp.op = "setDashPattern"
    /\ lastOp.gap < 0
    /\ lastOp.outcome = "returned"
    /\ dashSize > 0
    /\ gapSize = 0
    /\ material.type = "LineDashedMaterial"
    /\ material.gapSize = MinMaterialGap

\* ------------------------------------------------------- asynchronous claims
\* C32 (stale async texture completion): when the completion callback of the
\* atlas load runs, setTexture(texture, info) is applied only if the pane
\* style is "SVG" at that time, and then to the marker renderer current at
\* that time, never to a replaced one; with another style the callback
\* changes no renderer state.
C32_StaleCompletion ==
    [][app.jobs # << >> /\ Head(app.jobs).origin = "applyPaneTexture"
        => IF app.paneStyle = "SVG"
           THEN /\ app'.paneTexture = "atlas"
                /\ app'.replacedSets = app.replacedSets
           ELSE /\ app'.paneTexture = app.paneTexture
                /\ app'.replacedSets = app.replacedSets]_vars

\* the callback attached for a renderer that was replaced during the load has
\* run with the style "SVG" and the current renderer holds the atlas
C32_Witness ==
    /\ app.lastJob.origin = "applyPaneTexture"
    /\ app.lastJob.stale
    /\ app.lastJob.applied
    /\ app.lastJob.style = "SVG"
    /\ app.paneTexture = "atlas"
    /\ app.replacedSets = 0

\* C39 (single-flight atlas load with retry): at most one atlas build is in
\* flight; a loadSvgTexture call made while one is pending returns the
\* pending promise, one made after a build succeeded returns the cached
\* texture, and one made after a build failed starts a new build, the failure
\* having cleared the pending promise.
C39_SingleFlight ==
    /\ Cardinality(InFlight(app)) <= 1
    /\ app.lastLoad.prior = "pending" => app.lastLoad.result = "pending"
    /\ app.lastLoad.prior = "succeeded" => app.lastLoad.result = "cached"
    /\ app.lastLoad.prior = "failed" => app.lastLoad.result = "started"
    /\ app.buildOutcome = "succeeded" => HasCachedTexture(app) /\ InFlight(app) = {}
    /\ app.buildOutcome = "failed" => app.svgTexturePromise = 0 /\ InFlight(app) = {}
    /\ app.buildOutcome = "pending" => InFlight(app) = {app.svgTexturePromise}

\* a build failed at the texture load, the next call started a new build, and
\* that build succeeded
C39_Witness ==
    /\ app.lastLoad.prior = "failed"
    /\ app.lastLoad.result = "started"
    /\ app.buildOutcome = "succeeded"
    /\ app.svgTexture

\* C40 (start-up gate): the camera is positioned and the loading screen
\* removed only after both the earth texture has loaded and the minimum time
\* has elapsed, at most once, and eventually once both have happened.
C40_StartUpGate ==
    /\ [](app.positioned > 0 => app.earthTextureLoaded /\ app.minTimeElapsed)
    /\ [](app.positioned <= 1)
    /\ [](app.loadingScreen <=> app.positioned = 0)
    /\ ((app.earthTextureLoaded /\ app.minTimeElapsed) ~> app.positioned = 1)

\* the earth texture loaded after the timer had fired, and the camera was
\* positioned once
C40_Witness ==
    /\ app.lastEvent = "earth"
    /\ app.earthTextureLoaded
    /\ app.minTimeElapsed
    /\ app.positioned = 1
    /\ ~app.loadingScreen
    /\ app.pc = "idle"

\* ------------------------------------------------------ plane setting claims
\* what a setter step from a to b must have done when it propagates value:
\* the parameter, every flight and every config hold it, every flight was
\* called once, in order, and the sync callback once after them
PlanePropagated(a, b, value, param, flightField, configField, setter, sync) ==
    /\ b.planeParams[param] = value
    /\ Len(b.planeFlights) = Len(a.planeFlights)
    /\ Len(b.planeConfigs) = Len(a.planeConfigs)
    /\ \A k \in 1 .. Len(b.planeFlights) : b.planeFlights[k][flightField] = value
    /\ \A k \in 1 .. Len(b.planeConfigs) : b.planeConfigs[k][configField] = value
    /\ Len(b.planeCalls) = Len(a.planeFlights) + 1
    /\ \A k \in 1 .. Len(a.planeFlights) : b.planeCalls[k] = <<setter, k, value>>
    /\ b.planeCalls[Len(b.planeCalls)] = <<sync, 0, value>>

PlaneUntouched(a, b) ==
    /\ b.planeParams = a.planeParams
    /\ b.planeFlights = a.planeFlights
    /\ b.planeConfigs = a.planeConfigs
    /\ b.planeCalls = << >>

\* a numeric setter: a finite argument other than the parameter propagates,
\* anything else touches nothing
NumericSetterStep(a, b, op, param, flightField, configField, setter, sync) ==
    b.lastPlane.op = op =>
        IF b.lastPlane.input.kind = "finite"
           /\ b.lastPlane.input.number # a.planeParams[param]
        THEN PlanePropagated(a, b, b.lastPlane.input.number, param, flightField,
                             configField, setter, sync)
        ELSE PlaneUntouched(a, b)

\* the color an argument stands for: a finite number itself, a non-empty
\* string of hexadecimal digits its value, anything else the fallback color
HexValue(digits) ==
    LET n == Len(digits)
        Pow16(e) == IF e = 0 THEN 1 ELSE IF e = 1 THEN 16 ELSE IF e = 2 THEN 256
                    ELSE IF e = 3 THEN 4096 ELSE IF e = 4 THEN 65536 ELSE 1048576
        RECURSIVE Sum(_)
        Sum(k) == IF k > n THEN 0 ELSE digits[k] * Pow16(n - k) + Sum(k + 1)
    IN  Sum(1)
ColorMeant(input) ==
    CASE input.kind = "finite" -> input.number
      [] input.kind = "hex" /\ input.digits # << >> -> HexValue(input.digits)
      [] OTHER -> DefaultPlaneColor

SizeAndElevationSteps(a, b) ==
    /\ NumericSetterStep(a, b, "setPlaneSize", "planeSize", "paneSize", "paneSize",
                         "setPaneSize", "syncPlaneSize")
    /\ NumericSetterStep(a, b, "setElevationOffset", "elevationOffset", "paneElevation",
                         "elevationOffset", "setPaneElevation", "syncElevationOffset")

====
